---------------------------- MODULE Spec2Model ----------------------------
(***************************************************************************)
(* Model of the Itau statement extraction engine of finance_cli:           *)
(* src/src/finance_cli/itau.py (reconstruction, normalisation,             *)
(* reconciliation, identity and merge writer, region bounder), the         *)
(* parse_itau command of src/src/finance_cli/cli.py and the reading of a   *)
(* written row by import_csv of src/src/finance_cli/db.py.                 *)
(*                                                                         *)
(* Text is modelled as a sequence of one-character strings, so that        *)
(* splitting, joining, pattern matching and number formatting are          *)
(* computed the way the Python code computes them.  A text block is the    *)
(* sequence of its lines (what str.splitlines() returns).                  *)
(***************************************************************************)
EXTENDS Integers, Sequences, FiniteSets, TLC

(***************************************************************************)
(* Python values                                                           *)
(***************************************************************************)
\* Python's None.  No text equals it: texts hold one-character strings only.
None == <<"None">>

DigitChars == <<"0", "1", "2", "3", "4", "5", "6", "7", "8", "9">>

IsDigit(c) == \E d \in 1..10 : DigitChars[d] = c

DigitVal(c) == (CHOOSE d \in 1..10 : DigitChars[d] = c) - 1

\* \s of the regular expressions and the blanks of str.strip(): the space and
\* the line end (no line of a block holds a line end).
IsSpace(c) == c \in {" ", "\n"}

AllDigits(s) == \A i \in 1..Len(s) : IsDigit(s[i])

RECURSIVE NatToStr(_)
\* str(n) / f"{n}" for a natural number n.
NatToStr(n) ==
    IF n < 10 THEN <<DigitChars[n + 1]>>
    ELSE NatToStr(n \div 10) \o <<DigitChars[(n % 10) + 1]>>

RECURSIVE StrToNat(_)
\* int(s) for a text of digits ("" reads as 0 here; callers test AllDigits).
StrToNat(s) ==
    IF s = <<>> THEN 0
    ELSE 10 * StrToNat(SubSeq(s, 1, Len(s) - 1)) + DigitVal(s[Len(s)])

\* re.sub(r"\s+", "", s)
RemoveWS(s) == SelectSeq(s, LAMBDA c : ~IsSpace(c))

\* s.replace(a, b) for single characters a and b.
ReplaceChar(s, a, b) == [i \in 1..Len(s) |-> IF s[i] = a THEN b ELSE s[i]]

\* s.replace(a, "") for a single character a.
RemoveChar(s, a) == SelectSeq(s, LAMBDA c : c # a)

RECURSIVE LStrip(_)
LStrip(s) == IF s # <<>> /\ IsSpace(s[1]) THEN LStrip(Tail(s)) ELSE s

RECURSIVE RStrip(_)
RStrip(s) ==
    IF s # <<>> /\ IsSpace(s[Len(s)]) THEN RStrip(SubSeq(s, 1, Len(s) - 1)) ELSE s

\* s.strip()
Strip(s) == RStrip(LStrip(s))

\* Index of the first occurrence of character c in s, 0 when there is none.
FirstIdx(s, c) ==
    IF \E i \in 1..Len(s) : s[i] = c
    THEN CHOOSE i \in 1..Len(s) : s[i] = c /\ \A j \in 1..(i - 1) : s[j] # c
    ELSE 0

\* Index of the last occurrence of character c in s, 0 when there is none.
LastIdx(s, c) ==
    IF \E i \in 1..Len(s) : s[i] = c
    THEN CHOOSE i \in 1..Len(s) : s[i] = c /\ \A j \in (i + 1)..Len(s) : s[j] # c
    ELSE 0

RECURSIVE SplitMax(_, _, _)
\* s.split(sep, maxsplit) for a single character sep.
SplitMax(s, sep, maxsplit) ==
    LET k == FirstIdx(s, sep) IN
    IF maxsplit = 0 \/ k = 0 THEN <<s>>
    ELSE <<SubSeq(s, 1, k - 1)>> \o SplitMax(SubSeq(s, k + 1, Len(s)), sep, maxsplit - 1)

\* s.split(sep)
Split(s, sep) == SplitMax(s, sep, Len(s))

RECURSIVE Join(_, _)
\* sep.join(parts)
Join(parts, sep) ==
    IF parts = <<>> THEN <<>>
    ELSE IF Len(parts) = 1 THEN parts[1]
    ELSE parts[1] \o sep \o Join(Tail(parts), sep)

RECURSIVE CollapseSpaces(_)
\* re.sub(r"\s{2,}", " ", s)
CollapseSpaces(s) ==
    IF Len(s) < 2 THEN s
    ELSE IF IsSpace(s[1]) /\ IsSpace(s[2])
         THEN CollapseSpaces(<<" ">> \o LStrip(s))
         ELSE <<s[1]>> \o CollapseSpaces(Tail(s))

IsPrefix(p, s) == Len(p) <= Len(s) /\ SubSeq(s, 1, Len(p)) = p

IsSuffix(p, s) == Len(p) <= Len(s) /\ SubSeq(s, Len(s) - Len(p) + 1, Len(s)) = p


(***************************************************************************)
(* Floating point amounts.  A float is a sign, a magnitude in cents and    *)
(* the decimal digits beyond the second one; the amounts the extractor     *)
(* matches carry two fractional digits, so "extra" is empty for them.  The *)
(* sign is kept apart because Python distinguishes -0.0 from 0.0 when it   *)
(* prints a float.                                                         *)
(***************************************************************************)
NotAFloat == [ok |-> FALSE, neg |-> FALSE, mag |-> 0, extra |-> <<>>]

RECURSIVE StripZeros(_)
\* The digits s without their trailing zeros.
StripZeros(s) ==
    IF s # <<>> /\ s[Len(s)] = "0" THEN StripZeros(SubSeq(s, 1, Len(s) - 1)) ELSE s

\* float(s): optional blanks, optional sign, digits with an optional fraction.
\* ok = FALSE models ValueError.
ParseFloat(s) ==
    LET t    == Strip(s)
        neg  == t # <<>> /\ t[1] = "-"
        body == IF t # <<>> /\ t[1] \in {"-", "+"} THEN Tail(t) ELSE t
        dot  == FirstIdx(body, ".")
        ip   == IF dot = 0 THEN body ELSE SubSeq(body, 1, dot - 1)
        fp   == IF dot = 0 THEN <<>> ELSE SubSeq(body, dot + 1, Len(body))
      IN
    IF /\ AllDigits(ip) /\ AllDigits(fp)
       /\ Len(ip) + Len(fp) > 0
    THEN [ok  |-> TRUE,
          neg |-> neg,
          mag |-> 100 * StrToNat(ip) + StrToNat(SubSeq(fp \o <<"0", "0">>, 1, 2)),
          extra |-> StripZeros(SubSeq(fp, 3, Len(fp)))]
    ELSE NotAFloat

\* str(x) for a float x: the shortest representation, at least one fractional digit.
FloatStr(x) ==
    LET frac == x.mag % 100 IN
    (IF x.neg THEN <<"-">> ELSE <<>>)
    \o NatToStr(x.mag \div 100) \o <<".">>
    \o (IF x.extra # <<>> THEN NatToStr(frac \div 10) \o NatToStr(frac % 10) \o x.extra
        ELSE IF frac % 10 = 0 THEN NatToStr(frac \div 10)
        ELSE IF frac < 10 THEN <<"0">> \o NatToStr(frac)
        ELSE NatToStr(frac))

\* x * -1
FloatNeg(x) == [x EXCEPT !.neg = ~@]

\* The numeric value of a float in cents, int(round(x * 100)): the digits
\* beyond the second one round to the nearest cent.
Cents(x) ==
    LET up == IF x.extra # <<>> /\ x.extra[1] \in {"5", "6", "7", "8", "9"} THEN 1 ELSE 0
        m == x.mag + up
    IN IF x.neg THEN 0 - m ELSE m

(***************************************************************************)
(* Line patterns of the reconstructor                                      *)
(***************************************************************************)
\* re.match(r"^\d{1,2}/\d{1,2}$", s)
IsDatePattern(s) ==
    LET k == FirstIdx(s, "/") IN
    /\ k \in 2..3
    /\ Len(s) - k \in 1..2
    /\ AllDigits(SubSeq(s, 1, k - 1))
    /\ AllDigits(SubSeq(s, k + 1, Len(s)))

\* \d{1,3}(?:\.\d{3})* : digits grouped in thousands by "."
IsGroupedDigits(s) ==
    LET groups == Split(s, ".") IN
    /\ Len(groups[1]) \in 1..3
    /\ \A g \in 1..Len(groups) :
         /\ AllDigits(groups[g])
         /\ g > 1 => Len(groups[g]) = 3

\* re.match(r"^-?\d{1,3}(?:\.\d{3})*,\d{2}$", s) or re.match(r"^-?\d+,\d{2}$", s)
IsAmountPattern(s) ==
    LET body == IF s # <<>> /\ s[1] = "-" THEN Tail(s) ELSE s
        n    == Len(body)
        ip   == SubSeq(body, 1, n - 3)
      IN
    /\ n >= 4
    /\ body[n - 2] = ","
    /\ IsDigit(body[n - 1]) /\ IsDigit(body[n])
    /\ \/ IsGroupedDigits(ip)
       \/ (ip # <<>> /\ AllDigits(ip))

\* _normalize_amount_text: the amount text without blanks and thousands
\* separators, None when the line is no amount.
_normalize_amount_text(value) ==
    LET cleaned == RemoveWS(value) IN
    IF cleaned = <<>> THEN None
    ELSE IF ~IsAmountPattern(cleaned) THEN None
    ELSE RemoveChar(cleaned, ".")

\* A line on which str.strip() leaves nothing.
IsBlank(line) == Strip(line) = <<>>

\* ^(\d{1,2})/(\d)\s+(\d)$ inside one line: "19/1 2".
IsSplitDateLine(line) ==
    LET k == FirstIdx(line, "/")
        n == Len(line)
      IN
    /\ k \in 2..3
    /\ AllDigits(SubSeq(line, 1, k - 1))
    /\ n >= k + 3
    /\ IsDigit(line[k + 1])
    /\ IsDigit(line[n])
    /\ \A i \in (k + 2)..(n - 1) : IsSpace(line[i])

\* ^(\d{1,2})/(\d)\s* : the head of a date whose last digit is on a later line.
IsSplitDateHead(line) ==
    LET t == RStrip(line)
        k == FirstIdx(t, "/")
      IN
    /\ k \in 2..3
    /\ AllDigits(SubSeq(t, 1, k - 1))
    /\ Len(t) = k + 1
    /\ IsDigit(t[k + 1])

\* \s*(\d)$ : a line holding the last digit only.
IsSplitDateTail(line) ==
    LET t == LStrip(line) IN Len(t) = 1 /\ IsDigit(t[1])

RECURSIVE SkipBlank(_, _)
\* k = j; while k <= len(lines) and not lines[k].strip(): k += 1
SkipBlank(lines, k) ==
    IF k <= Len(lines) /\ IsBlank(lines[k]) THEN SkipBlank(lines, k + 1) ELSE k

RECURSIVE JoinSplitDates(_)
\* re.sub(r"(?m)^(\d{1,2})/(\d)\s+(\d)$", r"\1/\2\3", block) on the lines of
\* the block: \s+ also spans line ends, so a head line and a tail line with
\* only blank lines between them become one line.
JoinSplitDates(lines) ==
    IF lines = <<>> THEN <<>>
    ELSE LET line == lines[1]
             k    == SkipBlank(lines, 2)
           IN
         IF IsSplitDateLine(line)
         THEN <<RemoveWS(line)>> \o JoinSplitDates(Tail(lines))
         ELSE IF /\ IsSplitDateHead(line)
                 /\ k <= Len(lines)
                 /\ IsSplitDateTail(lines[k])
              THEN <<RemoveWS(line) \o RemoveWS(lines[k])>>
                   \o JoinSplitDates(SubSeq(lines, k + 1, Len(lines)))
              ELSE <<line>> \o JoinSplitDates(Tail(lines))

\* lines = [line for line in normalized_block.splitlines() if line.strip()]
BlockLines(block) == SelectSeq(JoinSplitDates(block), LAMBDA line : ~IsBlank(line))

(***************************************************************************)
(* match_to_csv                                                            *)
(***************************************************************************)
\* re.sub(r"-\s+(?=\d)", "-", s): blanks between a minus and a digit go.
RECURSIVE FixMinus(_)
FixMinus(s) ==
    IF s = <<>> THEN <<>>
    ELSE LET rest == LStrip(Tail(s)) IN
         IF /\ s[1] = "-"
            /\ Len(s) >= 2 /\ IsSpace(s[2])
            /\ rest # <<>> /\ IsDigit(rest[1])
         THEN <<"-">> \o FixMinus(rest)
         ELSE <<s[1]>> \o FixMinus(Tail(s))

\* The closing lines of match_to_csv, taken when the text is not a date line
\* followed by at least two lines: the whole text is rewritten.
MatchFallback(lines, year) ==
    LET text == FixMinus(ReplaceChar(
                    ReplaceChar(CollapseSpaces(Join(lines, <<"\n">>)), ",", "."),
                    "\n", ","))
      IN
    IF Len(text) > 5
    THEN SubSeq(text, 1, 5) \o <<"/">> \o year \o SubSeq(text, 6, Len(text))
    ELSE text

\* match_to_csv(match, year), match given as match.splitlines().
match_to_csv(lines, year) ==
    LET date_line == RemoveWS(lines[1])
        desc0     == Strip(CollapseSpaces(lines[2]))
        hasInst   == Len(lines) >= 4 /\ IsDatePattern(RemoveWS(lines[3]))
        desc      == IF hasInst THEN desc0 \o <<" ">> \o RemoveWS(lines[3]) ELSE desc0
        amount_line == IF hasInst THEN lines[4] ELSE lines[3]
        amount    == FixMinus(ReplaceChar(RemoveWS(amount_line), ",", "."))
      IN
    IF Len(lines) >= 3 /\ IsDatePattern(date_line)
    THEN date_line \o <<"/">> \o year \o <<",">> \o desc \o <<",">> \o amount
    ELSE MatchFallback(lines, year)

(***************************************************************************)
(* Statement reconstruction: basic mode                                    *)
(***************************************************************************)
\* f"{index},{date_part},{payment_field},{description},{amount}" with
\* date_part, description, amount = match_to_csv(match, year).split(",", 2).
\* Each intermediate text is bound once, as the element of a set of one.
StatementRow(index, match, year, payment_date) ==
    LET payment_field == IF payment_date = None THEN <<>> ELSE payment_date
        rows == {Join(<<NatToStr(index), parts[1], payment_field, parts[2], parts[3]>>,
                      <<",">>) :
                    parts \in {SplitMax(csv, ",", 2) :
                                 csv \in {match_to_csv(m, year) : m \in {match}}}}
      IN CHOOSE row \in rows : TRUE

\* The lookahead of the installment test: the line after position j, blank
\* lines skipped, is an amount.  Gives that amount, None otherwise.
InstallmentAmount(lines, j) ==
    LET k == SkipBlank(lines, j + 1) IN
    IF k <= Len(lines) THEN _normalize_amount_text(lines[k]) ELSE None

RECURSIVE BasicInner(_, _, _)
\* The inner loop of _parse_block_basic from position j with the description
\* lines gathered so far: where it stops and what it found.
BasicInner(lines, j, desc_lines) ==
    IF j > Len(lines)
    THEN [j |-> j, desc_lines |-> desc_lines, installment_line |-> None,
          amount_line |-> None]
    ELSE LET candidate      == Strip(lines[j])
             candidate_norm == RemoveWS(candidate)
             amount_text    == _normalize_amount_text(candidate)
           IN
         IF amount_text # None
         THEN [j |-> j, desc_lines |-> desc_lines, installment_line |-> None,
               amount_line |-> amount_text]
         ELSE IF /\ IsDatePattern(candidate_norm)
                 /\ InstallmentAmount(lines, j) # None
              THEN [j |-> SkipBlank(lines, j + 1), desc_lines |-> desc_lines,
                    installment_line |-> candidate_norm,
                    amount_line |-> InstallmentAmount(lines, j)]
              ELSE BasicInner(lines, j + 1, Append(desc_lines, candidate))

\* The emission test without the description: if amount_line:
BasicEmitsAnyDescription(amount_line, desc_lines) ==
    amount_line # None /\ amount_line # <<>>

\* if amount_line and desc_lines:
BasicEmits(amount_line, desc_lines) ==
    amount_line # None /\ amount_line # <<>> /\ desc_lines # <<>>

\* The description without the installment tag.
BasicDescriptionNoTag(desc_lines, installment_line) ==
    Join(desc_lines, <<" ">>)

\* if installment_line: desc_lines.append(installment_line)
BasicDescription(desc_lines, installment_line) ==
    IF installment_line # None /\ installment_line # <<>>
    THEN Join(Append(desc_lines, installment_line), <<" ">>)
    ELSE Join(desc_lines, <<" ">>)

\* One pass of the outer loop of _parse_block_basic.  st holds the scan
\* position i (from 1), the rows emitted so far and the running index.
BasicIter(lines, year, payment_date, st) ==
    LET date_line == RemoveWS(lines[st.i])
        r         == BasicInner(lines, st.i + 1, <<>>)
      IN
    IF ~IsDatePattern(date_line) THEN [st EXCEPT !.i = @ + 1]
    ELSE IF BasicEmits(r.amount_line, r.desc_lines)
    THEN [i     |-> r.j + 1,
          rows  |-> Append(st.rows,
                       StatementRow(st.index,
                           <<date_line,
                             BasicDescription(r.desc_lines, r.installment_line),
                             r.amount_line>>,
                           year, payment_date)),
          index |-> st.index + 1]
    ELSE [st EXCEPT !.i = @ + 1]

RECURSIVE BasicLoop(_, _, _, _)
\* while i < len(lines): ...
BasicLoop(lines, year, payment_date, st) ==
    IF st.i > Len(lines) THEN st
    ELSE BasicLoop(lines, year, payment_date, BasicIter(lines, year, payment_date, st))

\* _parse_block_basic(block, year, payment_date, index) -> (output_rows, index)
_parse_block_basic(block, year, payment_date, index) ==
    LET st == BasicLoop(BlockLines(block), year, payment_date,
                        [i |-> 1, rows |-> <<>>, index |-> index])
    IN [rows |-> st.rows, index |-> st.index]

(***************************************************************************)
(* Statement reconstruction: enhanced mode (category and location)         *)
(***************************************************************************)
\* Truth of a Python value that is None or a text.
Truthy(v) == v # None /\ v # <<>>

\* The dict opened at a date line.
NewStatement(date) ==
    [date |-> date, desc |-> <<>>, installment |-> None, amount |-> None,
     category |-> <<>>, location |-> <<>>]

\* current = None: no statement is open (an open one always has its date).
NoStatement == NewStatement(None)

\* if current and not current.get("amount")
Accumulating(current) == current # NoStatement /\ ~Truthy(current.amount)

RECURSIVE TokenCount(_)
\* len(s.split())
TokenCount(s) ==
    LET t == LStrip(s)
        k == FirstIdx(t, " ")
      IN
    IF t = <<>> THEN 0
    ELSE IF k = 0 THEN 1
    ELSE 1 + TokenCount(SubSeq(t, k + 1, Len(t)))

\* s.rsplit(" ", 1), for a text that holds a blank.
RSplitLast(s) ==
    LET k == LastIdx(s, " ") IN <<SubSeq(s, 1, k - 1), SubSeq(s, k + 1, Len(s))>>

\* The branch "if pending:" taking the newest pending statement: pending.pop()
TakeMetadataNewest(st, raw_line) ==
    IF TokenCount(raw_line) >= 2
    THEN LET parts      == RSplitLast(raw_line)
             stmt_index == st.pending[Len(st.pending)]
           IN [st EXCEPT
                 !.pending    = SubSeq(@, 1, Len(@) - 1),
                 !.statements = [@ EXCEPT ![stmt_index] =
                                    [@ EXCEPT !.category = Strip(parts[1]),
                                              !.location = Strip(parts[2])]],
                 !.i          = @ + 1]
    ELSE [st EXCEPT !.i = @ + 1]

\* The branch "if pending:" of _parse_block_with_metadata: a line of two or
\* more tokens is the category and location of the oldest pending statement.
TakeMetadata(st, raw_line) ==
    IF TokenCount(raw_line) >= 2
    THEN LET parts      == RSplitLast(raw_line)
             stmt_index == Head(st.pending)
           IN [st EXCEPT
                 !.pending    = Tail(@),
                 !.statements = [@ EXCEPT ![stmt_index] =
                                    [@ EXCEPT !.category = Strip(parts[1]),
                                              !.location = Strip(parts[2])]],
                 !.i          = @ + 1]
    ELSE [st EXCEPT !.i = @ + 1]

\* statements.append(current); pending.append(len(statements) - 1); current = None
\* (pending holds positions counted from 1 here).
CloseStatement(st, closed, next_i) ==
    [st EXCEPT !.statements = Append(@, closed),
               !.pending    = Append(@, Len(st.statements) + 1),
               !.current    = NoStatement,
               !.i          = next_i]

\* One pass of the while loop of _parse_block_with_metadata.  st holds the
\* scan position i (from 1), the closed statements, the pending queue and
\* the statement being accumulated.
EnhancedIter(lines, st) ==
    LET raw_line    == Strip(lines[st.i])
        normalized  == RemoveWS(raw_line)
        amount_text == _normalize_amount_text(raw_line)
        cur         == st.current
      IN
    IF IsDatePattern(normalized)
    THEN [st EXCEPT
            !.current = IF Accumulating(cur) \/ cur = NoStatement
                        THEN NewStatement(normalized) ELSE cur,
            !.i = @ + 1]
    ELSE IF Accumulating(cur)
    THEN IF amount_text # None
         THEN CloseStatement(st, [cur EXCEPT !.amount = amount_text], st.i + 1)
         ELSE IF /\ IsDatePattern(normalized)
                 /\ InstallmentAmount(lines, st.i) # None
         THEN CloseStatement(st,
                  [cur EXCEPT !.installment = normalized,
                              !.amount = InstallmentAmount(lines, st.i)],
                  SkipBlank(lines, st.i + 1) + 1)
         ELSE [st EXCEPT
                 !.current = [cur EXCEPT !.desc =
                                 IF Truthy(cur.desc)
                                 THEN Strip(cur.desc \o <<" ">> \o raw_line)
                                 ELSE raw_line],
                 !.i = @ + 1]
    ELSE IF st.pending # <<>>
    THEN TakeMetadata(st, raw_line)
    ELSE [st EXCEPT !.i = @ + 1]

RECURSIVE EnhancedLoop(_, _)
\* while i < len(lines): ...
EnhancedLoop(lines, st) ==
    IF st.i > Len(lines) THEN st ELSE EnhancedLoop(lines, EnhancedIter(lines, st))

\* if not statement.get("amount") or not statement.get("desc")
\*    or not statement.get("date"): continue
EnhancedEmits(statement) ==
    Truthy(statement.amount) /\ Truthy(statement.desc) /\ Truthy(statement.date)

\* The row of one closed statement, category and location appended.
EnhancedRow(statement, year, payment_date, index) ==
    LET match == IF Truthy(statement.installment)
                 THEN <<statement.date, statement.desc, statement.installment,
                        statement.amount>>
                 ELSE <<statement.date, statement.desc, statement.amount>>
    IN StatementRow(index, match, year, payment_date)
       \o <<",">> \o statement.category \o <<",">> \o statement.location

RECURSIVE EnhancedOutput(_, _, _, _)
\* The closing loop of _parse_block_with_metadata over the closed statements.
EnhancedOutput(statements, year, payment_date, index) ==
    IF statements = <<>> THEN [rows |-> <<>>, index |-> index]
    ELSE IF ~EnhancedEmits(Head(statements))
    THEN EnhancedOutput(Tail(statements), year, payment_date, index)
    ELSE LET rest == EnhancedOutput(Tail(statements), year, payment_date, index + 1)
         IN [rows  |-> <<EnhancedRow(Head(statements), year, payment_date, index)>>
                       \o rest.rows,
             index |-> rest.index]

\* The state of the while loop of _parse_block_with_metadata when it ends.
EnhancedScan(block) ==
    EnhancedLoop(BlockLines(block),
                 [i |-> 1, statements |-> <<>>, pending |-> <<>>, current |-> NoStatement])

\* _parse_block_with_metadata(block, year, payment_date, index)
\*   -> (output_rows, index)
_parse_block_with_metadata(block, year, payment_date, index) ==
    EnhancedOutput(EnhancedScan(block).statements, year, payment_date, index)

RECURSIVE BlocksFrom(_, _, _, _, _)
\* The loop of blocks_to_statements: the index runs on from block to block.
BlocksFrom(blocks, year, payment_date, enhanced, index) ==
    IF blocks = <<>> THEN <<>>
    ELSE LET parsed == IF enhanced
                       THEN _parse_block_with_metadata(Head(blocks), year,
                                                       payment_date, index)
                       ELSE _parse_block_basic(Head(blocks), year,
                                               payment_date, index)
         IN parsed.rows
            \o BlocksFrom(Tail(blocks), year, payment_date, enhanced, parsed.index)

\* index = 0 at the start of every document.
FirstIndex == 0

\* blocks_to_statements(blocks, year, payment_date, enhanced)
blocks_to_statements(blocks, year, payment_date, enhanced) ==
    BlocksFrom(blocks, year, payment_date, enhanced, FirstIndex)

(***************************************************************************)
(* Normalizer: dates, sign flip, reconciliation                            *)
(***************************************************************************)
IsLeap(y) == (y % 4 = 0 /\ y % 100 # 0) \/ y % 400 = 0

DaysInMonth(m, y) ==
    IF m = 2 THEN (IF IsLeap(y) THEN 29 ELSE 28)
    ELSE IF m \in {4, 6, 9, 11} THEN 30 ELSE 31

NotADate == [ok |-> FALSE, day |-> 0, month |-> 0, year |-> 0]

\* datetime.strptime(s, "%d/%m/%y"); ok = FALSE models ValueError.
ParseDMY(s) ==
    LET parts == Split(s, "/")
        d == StrToNat(parts[1])
        m == StrToNat(parts[2])
        y == IF StrToNat(parts[3]) < 69
             THEN 2000 + StrToNat(parts[3]) ELSE 1900 + StrToNat(parts[3])
      IN
    IF /\ Len(parts) = 3
       /\ \A i \in 1..3 : AllDigits(parts[i])
       /\ Len(parts[1]) \in 1..2 /\ Len(parts[2]) \in 1..2 /\ Len(parts[3]) = 2
       /\ m \in 1..12
       /\ d \in 1..DaysInMonth(m, y)
    THEN [ok |-> TRUE, day |-> d, month |-> m, year |-> y]
    ELSE NotADate

\* f"{n:02d}"
TwoDigits(n) == IF n < 10 THEN <<"0">> \o NatToStr(n) ELSE NatToStr(n)

\* format_date_en_us: DD/MM/YY to MM/DD/YY; a text that is no date stays.
format_date_en_us(date_str) ==
    LET parsed == ParseDMY(date_str) IN
    IF date_str = <<>> \/ ~parsed.ok THEN date_str
    ELSE TwoDigits(parsed.month) \o <<"/">> \o TwoDigits(parsed.day)
         \o <<"/">> \o TwoDigits(parsed.year % 100)

EN_US_MONTH_ABBREVIATIONS ==
    << <<"J", "A", "N">>, <<"F", "E", "B">>, <<"M", "A", "R">>, <<"A", "P", "R">>,
       <<"M", "A", "Y">>, <<"J", "U", "N">>, <<"J", "U", "L">>, <<"A", "U", "G">>,
       <<"S", "E", "P">>, <<"O", "C", "T">>, <<"N", "O", "V">>, <<"D", "E", "C">> >>

\* The first five fields of row.split(",", 6) and what follows them.
RowParts(row) == SplitMax(row, ",", 6)

\* One row of flip_sign_last_column: the fifth field negated when it reads
\* as a number, the row unchanged otherwise.
FlipRow(row) ==
    LET columns      == RowParts(row)
        amount_value == ParseFloat(ReplaceChar(columns[5], ",", "."))
      IN
    IF Len(columns) < 5 THEN row
    ELSE IF amount_value.ok
    THEN Join([columns EXCEPT ![5] = FloatStr(FloatNeg(amount_value))], <<",">>)
    ELSE Join(columns, <<",">>)

\* flip_sign_last_column(csv_data)
flip_sign_last_column(csv_data) == [k \in 1..Len(csv_data) |-> FlipRow(csv_data[k])]

\* The index kept as it is, numbering from 0.
IdNumberFromZero(index) ==
    IF index # <<>> /\ AllDigits(index) THEN StrToNat(index) ELSE 0

\* int(index) + 1, with 0 for an index that is no number.
IdNumber(index) ==
    (IF index # <<>> /\ AllDigits(index) THEN StrToNat(index) ELSE 0) + 1

\* One row of apply_id_schema: the index replaced by YYYY-MMM-(index + 1),
\* year and month taken from the payment date, else the transaction date.
IdRow(row) ==
    LET parts       == RowParts(row)
        date_source == IF Strip(parts[3]) # <<>> THEN Strip(parts[3]) ELSE parts[2]
        parsed      == ParseDMY(date_source)
        year        == IF parsed.ok THEN NatToStr(parsed.year)
                       ELSE <<"0", "0", "0", "0">>
        month       == IF parsed.ok THEN EN_US_MONTH_ABBREVIATIONS[parsed.month]
                       ELSE <<"U", "N", "K">>
        row_id      == year \o <<"-">> \o month \o <<"-">> \o NatToStr(IdNumber(parts[1]))
      IN
    IF Len(parts) < 5 THEN row
    ELSE Join([parts EXCEPT ![1] = row_id], <<",">>)

\* apply_id_schema(rows)
apply_id_schema(rows) == [k \in 1..Len(rows) |-> IdRow(rows[k])]

\* One row of localize_rows: both dates rendered MM/DD/YY.
LocalizeRow(row) ==
    LET parts == RowParts(row) IN
    IF Len(parts) < 5 THEN row
    ELSE Join([parts EXCEPT ![2] = format_date_en_us(parts[2]),
                            ![3] = format_date_en_us(parts[3])], <<",">>)

\* localize_rows(rows)
localize_rows(rows) == [k \in 1..Len(rows) |-> LocalizeRow(rows[k])]

\* parse_brl_amount: float(value.strip().replace(".", "").replace(",", "."))
parse_brl_amount(value) == ParseFloat(ReplaceChar(RemoveChar(Strip(value), "."), ",", "."))

\* float(row.split(",")[4]) of check_total; ok = FALSE models IndexError and
\* ValueError.
FifthColumn(row) ==
    LET fields == Split(row, ",") IN
    IF Len(fields) < 5 THEN NotAFloat ELSE ParseFloat(fields[5])

RECURSIVE SumCents(_)
\* sum(float(row.split(",")[4]) for row in csv_data), in cents.
SumCents(csv_data) ==
    IF csv_data = <<>> THEN 0
    ELSE Cents(FifthColumn(Head(csv_data))) + SumCents(Tail(csv_data))

\* check_total(csv_data, expected_total): what it does, and the sum it
\* computed.  "ok" returns None; the other two raise ValueError.
check_total(csv_data, expected_total) ==
    IF \E k \in 1..Len(csv_data) : ~FifthColumn(csv_data[k]).ok
    THEN [outcome |-> "parse_error", total_sum |-> 0]
    ELSE IF SumCents(csv_data) # expected_total
    THEN [outcome |-> "mismatch", total_sum |-> SumCents(csv_data)]
    ELSE [outcome |-> "ok", total_sum |-> SumCents(csv_data)]

(***************************************************************************)
(* Identity and merge writer.  An output table is the sequence of records  *)
(* of the CSV file, a record being the list of fields csv.writer wrote     *)
(* and csv.reader gives back.                                              *)
(***************************************************************************)
CSV_HEADERS ==
    << <<"i", "d">>,
       <<"t", "r", "a", "n", "s", "a", "c", "t", "i", "o", "n", "_", "d", "a", "t", "e">>,
       <<"p", "a", "y", "m", "e", "n", "t", "_", "d", "a", "t", "e">>,
       <<"d", "e", "s", "c", "r", "i", "p", "t", "i", "o", "n">>,
       <<"a", "m", "o", "u", "n", "t">> >>

CSV_HEADERS_ENHANCED ==
    CSV_HEADERS \o << <<"c", "a", "t", "e", "g", "o", "r", "y">>,
                      <<"l", "o", "c", "a", "t", "i", "o", "n">> >>

\* load_existing_rows(output_path, headers): the rows of the file, but for
\* empty records and records equal to the headers.
load_existing_rows(table, headers) ==
    {Join(table[k], <<",">>) : k \in {j \in 1..Len(table) :
                                        table[j] # <<>> /\ table[j] # headers}}

\* if row in existing_rows: continue
SkipsRow(row, existing_rows) == row \in existing_rows

\* output_path.open("w"): the file is emptied when writing starts.
OpenTruncating(table) == <<>>

\* output_path.open("a"): what the file holds when writing starts.
OpenForAppend(table) == table

RECURSIVE AppendNew(_, _, _, _)
\* The loop of write_csv_lines_idempotent over the rows.
AppendNew(table, rows, existing_rows, added) ==
    IF rows = <<>> THEN [table |-> table, added |-> added]
    ELSE IF SkipsRow(Head(rows), existing_rows)
    THEN AppendNew(table, Tail(rows), existing_rows, added)
    ELSE AppendNew(Append(table, Split(Head(rows), ",")), Tail(rows),
                   existing_rows \cup {Head(rows)}, added + 1)

\* write_csv_lines_idempotent(rows, output_path, include_headers, headers)
\*   -> the file afterwards and the number of rows added.
write_csv_lines_idempotent(table, rows, include_headers, headers) ==
    LET existing_rows == load_existing_rows(table, headers)
        opened        == OpenForAppend(table)
        start         == IF include_headers /\ opened = <<>>
                         THEN <<headers>> ELSE opened
    IN AppendNew(start, rows, existing_rows, 0)

\* write_csv_lines(rows, output_path, include_headers, headers) to a file:
\* the file is written anew.
write_csv_lines(rows, include_headers, headers) ==
    (IF include_headers THEN <<headers>> ELSE <<>>)
    \o [k \in 1..Len(rows) |-> Split(rows[k], ",")]

(***************************************************************************)
(* The store's import (db.py): how import_csv reads a written row back.    *)
(***************************************************************************)
\* datetime.strptime(value, fmt) for the formats with slashes: the day or the
\* month first, the year of two digits (%y) or of four (%Y).
ParseSlashDate(value, day_first, long_year) ==
    LET parts == Split(value, "/")
        d == StrToNat(parts[IF day_first THEN 1 ELSE 2])
        m == StrToNat(parts[IF day_first THEN 2 ELSE 1])
        y == IF long_year THEN StrToNat(parts[3])
             ELSE IF StrToNat(parts[3]) < 69
             THEN 2000 + StrToNat(parts[3]) ELSE 1900 + StrToNat(parts[3])
      IN
    IF /\ Len(parts) = 3
       /\ \A i \in 1..3 : AllDigits(parts[i])
       /\ Len(parts[1]) \in 1..2 /\ Len(parts[2]) \in 1..2
       /\ Len(parts[3]) = IF long_year THEN 4 ELSE 2
       /\ y >= 1
       /\ m \in 1..12
       /\ d \in 1..DaysInMonth(m, y)
    THEN [ok |-> TRUE, day |-> d, month |-> m, year |-> y]
    ELSE NotADate

\* datetime.strptime(value, "%Y-%m-%d")
ParseIsoDate(value) ==
    LET parts == Split(value, "-") IN
    IF /\ Len(parts) = 3
       /\ \A i \in 1..3 : AllDigits(parts[i])
       /\ Len(parts[1]) = 4 /\ Len(parts[2]) \in 1..2 /\ Len(parts[3]) \in 1..2
       /\ StrToNat(parts[1]) >= 1
       /\ StrToNat(parts[2]) \in 1..12
       /\ StrToNat(parts[3]) \in 1..DaysInMonth(StrToNat(parts[2]), StrToNat(parts[1]))
    THEN [ok |-> TRUE, day |-> StrToNat(parts[3]), month |-> StrToNat(parts[2]),
          year |-> StrToNat(parts[1])]
    ELSE NotADate

\* parsed.strftime("%Y-%m-%d")
IsoDate(parsed) ==
    (IF parsed.year < 1000 THEN <<"0">> ELSE <<>>)
    \o (IF parsed.year < 100 THEN <<"0">> ELSE <<>>)
    \o (IF parsed.year < 10 THEN <<"0">> ELSE <<>>)
    \o NatToStr(parsed.year) \o <<"-">> \o TwoDigits(parsed.month)
    \o <<"-">> \o TwoDigits(parsed.day)

\* _parse_date: the first format that reads the value gives the date.
_parse_date(value) ==
    LET v == Strip(value) IN
    IF ParseSlashDate(v, TRUE, TRUE).ok THEN IsoDate(ParseSlashDate(v, TRUE, TRUE))
    ELSE IF ParseSlashDate(v, TRUE, FALSE).ok THEN IsoDate(ParseSlashDate(v, TRUE, FALSE))
    ELSE IF ParseSlashDate(v, FALSE, TRUE).ok THEN IsoDate(ParseSlashDate(v, FALSE, TRUE))
    ELSE IF ParseSlashDate(v, FALSE, FALSE).ok THEN IsoDate(ParseSlashDate(v, FALSE, FALSE))
    ELSE IF ParseIsoDate(v).ok THEN IsoDate(ParseIsoDate(v))
    ELSE None

\* _parse_amount_cents: int(round(float(cleaned) * 100)); ok = FALSE models
\* ValueError.
_parse_amount_cents(value) ==
    LET stripped == RemoveChar(Strip(value), " ")
        comma == LastIdx(stripped, ",")
        dot == LastIdx(stripped, ".")
        cleaned == IF comma # 0 /\ dot # 0
                   THEN (IF comma > dot
                         THEN ReplaceChar(RemoveChar(stripped, "."), ",", ".")
                         ELSE RemoveChar(stripped, ","))
                   ELSE IF comma # 0
                   THEN ReplaceChar(RemoveChar(stripped, "."), ",", ".")
                   ELSE stripped
    IN [ok |-> ParseFloat(cleaned).ok, cents |-> Cents(ParseFloat(cleaned))]

\* pick(key) of _normalize_row on a record of csv.DictReader: the stripped
\* value under the header key, None when it is missing or blank.
pick(header, record, key) ==
    IF \E c \in 1..Len(header) : header[c] = key /\ c <= Len(record) /\ Strip(record[c]) # <<>>
    THEN Strip(record[CHOOSE c \in 1..Len(header) :
                          /\ header[c] = key
                          /\ \A b \in 1..(c - 1) : header[b] # key])
    ELSE None

\* The date and the amount import_csv stores for one record of a file with
\* the given header.
import_csv(header, record) ==
    [txn_date |-> IF pick(header, record, CSV_HEADERS[2]) = None THEN None
                  ELSE _parse_date(pick(header, record, CSV_HEADERS[2])),
     amount   |-> IF pick(header, record, CSV_HEADERS[5]) = None THEN [ok |-> FALSE, cents |-> 0]
                  ELSE _parse_amount_cents(pick(header, record, CSV_HEADERS[5]))]

(***************************************************************************)
(* State                                                                   *)
(***************************************************************************)
VARIABLES
    pc,          \* where the run stands
    doc,         \* the document being processed: what the PDF library yields
    enhanced,    \* the --enhanced option
    statements,  \* the rows of blocks_to_statements for the document
    rows,        \* the rows after flip_sign_last_column
    ids,         \* the rows after apply_id_schema
    table,       \* the output table (the CSV file named by --output)
    callRows,    \* write_csv_lines_idempotent: the rows of the last call
    inclHeaders, \* its include_headers argument
    added,       \* what the last call returned
    ncalls,      \* calls made so far
    entry,       \* the entry point of a run: parse_itau or parse_itau_pdf
    opts,        \* its options: merge, output, rename, total
    batch,       \* pdf_paths: the documents of the run, in order
    di,          \* the position in batch of the document in the loop
    all_rows,    \* the rows gathered under --merge
    files,       \* the per-document CSV files, by document name
    stdout,      \* the lines printed by write_csv_lines without a path
    returned,    \* what parse_itau_pdf returned
    total_mismatches, \* the documents whose check_total raised
    total_missing,    \* the documents without an expected total
    error,       \* the exception that ended the run, "none" while there is none
    emitted,     \* positions in batch of the documents whose rows went out
    flips,       \* times flip_sign_last_column ran on the document's rows
    reconFlips,  \* the value of flips when the document was reconciled, -1 before
    scan,        \* the loop of _parse_block_with_metadata: i, statements, pending, current
    region,      \* the page loop of the extractors: layout, page read, what it gave
    lookup,      \* a call of find_total_in_text: the text, and the total returned
    amount,      \* a call of an amount parser: the text and what came back
    store,  \* the statements table of the store, and the rows import_csv was given
    splitter,  \* the page loop of _iter_pages_with_split: the words read and the split yielded
    grouper,  \* a call of _extract_page_lines: the words of the page and the lines made
    parser,  \* the generator parse_statements: the lines, the position, what it yielded
    loop   \* a reconstruction loop: which one, its lines, its state and where it stands

reconVars == <<doc, enhanced, statements, rows, ids>>

writerVars == <<callRows, inclHeaders, added, ncalls>>

batchVars ==
    <<entry, opts, batch, di, all_rows, files, stdout, returned,
      total_mismatches, total_missing, error, emitted, flips, reconFlips>>

scanVars == <<scan>>

regionVars == <<region>>

lookupVars == <<lookup>>

amountVars == <<amount>>

storeVars == <<store>>

splitVars == <<splitter>>

groupVars == <<grouper>>

parseVars == <<parser>>

loopVars == <<loop>>

vars == <<pc, reconVars, table, writerVars, batchVars, scanVars, regionVars, lookupVars, amountVars, storeVars, splitVars, groupVars, parseVars, loopVars>>

\* The writer's variables while no direct call of the writer is modelled.
WriterIdle ==
    /\ callRows = <<>>
    /\ inclHeaders = TRUE
    /\ added = 0
    /\ ncalls = 0

\* The year of issue and the payment date found in the documents.
Year24 == <<"2", "4">>

March15 == <<"1", "5", "/", "0", "3", "/", "2", "4">>

\* No printed total found, and a printed total in cents.
NoTotal == [found |-> FALSE, cents |-> 0]

Total(cents) == [found |-> TRUE, cents |-> cents]

\* A PDF by what the extractors give for it: its text blocks, the year of
\* issue, the payment date, the printed total, whether fitz can open it and
\* whether the last four digits of the card are found.
Pdf(name, blocks, payment_date, total, readable, last4) ==
    [name |-> name, blocks |-> blocks, year |-> Year24,
     payment_date |-> payment_date, total |-> total, readable |-> readable,
     last4 |-> last4]

Document(blocks, payment_date) ==
    Pdf("document.pdf", blocks, payment_date, NoTotal, TRUE, TRUE)

\* The options of parse_itau that the runs vary; --sort, --no-headers, --debug,
\* --layout and --locale keep their defaults (no sorting, headers written,
\* en-US).
NoOptions == [merge |-> FALSE, output |-> FALSE, rename |-> FALSE, total |-> None]

\* The loop of _parse_block_with_metadata while no block is being scanned.
ScanIdle ==
    scan = [i |-> 0, statements |-> <<>>, pending |-> <<>>, current |-> NoStatement]

\* A marker position: none, or the y0 of the line it was seen at.
NoY == [set |-> FALSE, y0 |-> 0]

Y(y0) == [set |-> TRUE, y0 |-> y0]

NoPage == [left |-> <<>>, right |-> <<>>]

\* The page loop while no document is being read.
RegionIdle ==
    region = [layout |-> "modern", stage |-> "idle", pageNo |-> 0, page |-> NoPage,
              lines |-> NoPage, blocks |-> <<>>, stopPage |-> 0]

\* No call of find_total_in_text is modelled.
LookupIdle == lookup = [text |-> <<>>, stage |-> "idle", total |-> NoTotal]
AmountIdle == amount = [text |-> <<>>, stage |-> "idle", via |-> "none", value |-> NotAFloat]
StoreIdle == store = [rows |-> <<>>, given |-> {}, inserted |-> 0, skipped |-> 0]
SplitIdle == splitter = [layout |-> "modern", pageNo |-> 0, first |-> [words |-> <<>>, rect |-> [x0 |-> 0, width |-> 0]], words |-> <<>>, rect |-> [x0 |-> 0, width |-> 0], base |-> [set |-> FALSE, x |-> 0], computed |-> 0, split_x_line |-> 0]
GroupIdle == grouper = [words |-> <<>>, stage |-> "idle", lines |-> [left |-> <<>>, right |-> <<>>]]
ParseIdle == parser = [lines |-> <<>>, i |-> 0, current_stmt |-> <<>>, yielded |-> <<>>, stage |-> "idle"]
LoopIdle == loop = [mode |-> "none", lines |-> <<>>, st |-> [i |-> 1], stage |-> "idle"]

\* The variables of a run while no run of an entry point is modelled.
BatchIdle ==
    /\ entry = "none"
    /\ opts = NoOptions
    /\ batch = <<>>
    /\ di = 0
    /\ all_rows = <<>>
    /\ files = <<>>
    /\ stdout = <<>>
    /\ returned = <<>>
    /\ total_mismatches = <<>>
    /\ total_missing = <<>>
    /\ error = "none"
    /\ emitted = {}
    /\ flips = 0
    /\ reconFlips = 0 - 1

\* The pipeline's variables while only the writer is called.
ReconIdle ==
    /\ doc = Document(<<>>, None)
    /\ enhanced = FALSE
    /\ statements = <<>>
    /\ rows = <<>>
    /\ ids = <<>>

(***************************************************************************)
(* Reconciler: the printed total of a document, searched in its text with  *)
(* the regular expressions of TOTAL_PATTERNS.  The expressions are matched *)
(* character by character, ignoring case, the way re.search does: at the   *)
(* leftmost place where the whole expression matches.                      *)
(***************************************************************************)
Uppers == <<"A", "B", "C", "D", "E", "F", "G", "H", "I", "J", "K", "L", "M", "N", "O", "P", "Q", "R", "S", "T", "U", "V", "W", "X", "Y", "Z">>

Lowers == <<"a", "b", "c", "d", "e", "f", "g", "h", "i", "j", "k", "l", "m", "n", "o", "p", "q", "r", "s", "t", "u", "v", "w", "x", "y", "z">>

\* str.lower() of one character.
Lower(c) ==
    IF \E i \in 1..Len(Uppers) : Uppers[i] = c
    THEN Lowers[CHOOSE i \in 1..Len(Uppers) : Uppers[i] = c]
    ELSE c

\* A literal of an expression at place p (re.IGNORECASE): the place after
\* it, 0 when it does not match.
LitAt(t, p, lit) ==
    IF /\ p >= 1
       /\ p + Len(lit) - 1 <= Len(t)
       /\ \A i \in 1..Len(lit) : Lower(t[p + i - 1]) = lit[i]
    THEN p + Len(lit) ELSE 0

\* \s* at place p: the place after the blanks.
SkipWS(t, p) ==
    CHOOSE q \in p..(Len(t) + 1) :
        /\ \A j \in p..(q - 1) : IsSpace(t[j])
        /\ q <= Len(t) => ~IsSpace(t[q])

RECURSIVE WordsAt(_, _, _)
\* word \s+ word \s+ ... at place p: the place after the last word, or 0.
WordsAt(t, p, words) ==
    LET e == LitAt(t, p, Head(words)) IN
    IF e = 0 THEN 0
    ELSE IF Len(words) = 1 THEN e
    ELSE IF SkipWS(t, e) = e THEN 0
    ELSE WordsAt(t, SkipWS(t, e), Tail(words))

NoMatch == [ok |-> FALSE, group |-> <<>>]

\* ([\d\.]+,\d{2}) at place p.
AmountAt(t, p) ==
    IF p < 1 \/ p > Len(t) THEN NoMatch
    ELSE LET r == CHOOSE q \in p..(Len(t) + 1) :
                      /\ \A j \in p..(q - 1) : IsDigit(t[j]) \/ t[j] = "."
                      /\ q <= Len(t) => ~(IsDigit(t[q]) \/ t[q] = ".")
         IN IF /\ r > p
               /\ r + 2 <= Len(t)
               /\ t[r] = ","
               /\ IsDigit(t[r + 1])
               /\ IsDigit(t[r + 2])
            THEN [ok |-> TRUE, group |-> SubSeq(t, p, r + 2)]
            ELSE NoMatch

\* (?:R\$)?\s*([\d\.]+,\d{2}) at place p, or R\$\s*(...) when the currency
\* sign is required.
CurrencyAt(t, p, required) ==
    LET c == LitAt(t, p, <<"r", "$">>) IN
    IF c # 0 THEN AmountAt(t, SkipWS(t, c))
    ELSE IF required THEN NoMatch
    ELSE AmountAt(t, SkipWS(t, p))

WordsDesta == <<<<"t", "o", "t", "a", "l">>, <<"d", "e", "s", "t", "a">>, <<"f", "a", "t", "u", "r", "a">>>>

WordsSua == <<<<"o">>, <<"t", "o", "t", "a", "l">>, <<"d", "a">>, <<"s", "u", "a">>, <<"f", "a", "t", "u", "r", "a">>, <<"é", ":">>>>

WordsDa == <<<<"t", "o", "t", "a", "l">>, <<"d", "a">>, <<"f", "a", "t", "u", "r", "a">>>>

Anterior == <<"a", "n", "t", "e", "r", "i", "o", "r">>

\* Total\s+desta\s+fatura\s*\n\s*(?:R\$)?\s*([\d\.]+,\d{2})
DestaAt(t, p) ==
    LET e == WordsAt(t, p, WordsDesta) IN
    IF e # 0 /\ \E j \in e..(SkipWS(t, e) - 1) : t[j] = "\n"
    THEN CurrencyAt(t, SkipWS(t, e), FALSE)
    ELSE NoMatch

\* O\s+total\s+da\s+sua\s+fatura\s+é:\s*\n?\s*R\$\s*([\d\.]+,\d{2})
SuaAt(t, p) ==
    LET e == WordsAt(t, p, WordsSua) IN
    IF e # 0 THEN CurrencyAt(t, SkipWS(t, e), TRUE) ELSE NoMatch

\* (?!\s+anterior) at place e.
NotAnterior(t, e) == ~(SkipWS(t, e) > e /\ LitAt(t, SkipWS(t, e), Anterior) # 0)

\* Total\s+da\s+fatura(?!\s+anterior)\s*\n?\s*(?:R\$)?\s*([\d\.]+,\d{2})
DaAt(t, p) ==
    LET e == WordsAt(t, p, WordsDa) IN
    IF e # 0 /\ NotAnterior(t, e) THEN CurrencyAt(t, SkipWS(t, e), FALSE) ELSE NoMatch

PatternsLastFirst == <<"da", "sua", "desta">>

TOTAL_PATTERNS == <<"desta", "sua", "da">>

PatternAt(pattern, t, p) ==
    CASE pattern = "desta" -> DestaAt(t, p)
      [] pattern = "sua" -> SuaAt(t, p)
      [] pattern = "da" -> DaAt(t, p)

\* re.search(pattern, text, flags=re.IGNORECASE | re.MULTILINE)
Search(pattern, t) ==
    IF \E p \in 1..Len(t) : PatternAt(pattern, t, p).ok
    THEN PatternAt(pattern, t,
                   CHOOSE p \in 1..Len(t) :
                       /\ PatternAt(pattern, t, p).ok
                       /\ \A q \in 1..(p - 1) : ~PatternAt(pattern, t, q).ok)
    ELSE NoMatch

\* normalize_pdf_text: accents stripped, lower case, blanks removed.
normalize_pdf_text(t) ==
    RemoveWS([i \in 1..Len(t) |-> IF t[i] = "é" THEN "e" ELSE Lower(t[i])])

Window == 200

\* label.{0,200}?(?:r\$)?([\d.]+,\d{2}) at place p (re.DOTALL): the amount at
\* the first place after the label, at most Window characters on, where one
\* starts.
LabelAt(label, t, p) ==
    LET e == LitAt(t, p, label)
        starts == {q \in e..(e + Window) :
                      \/ AmountAt(t, q).ok
                      \/ LitAt(t, q, <<"r", "$">>) # 0 /\ AmountAt(t, q + 2).ok}
    IN IF e = 0 \/ starts = {} THEN NoMatch
       ELSE LET q == CHOOSE x \in starts : \A y \in starts : x <= y
            IN IF LitAt(t, q, <<"r", "$">>) # 0 THEN AmountAt(t, q + 2) ELSE AmountAt(t, q)

SearchLabel(label, t) ==
    IF \E p \in 1..Len(t) : LabelAt(label, t, p).ok
    THEN LabelAt(label, t,
                 CHOOSE p \in 1..Len(t) :
                     /\ LabelAt(label, t, p).ok
                     /\ \A q \in 1..(p - 1) : ~LabelAt(label, t, q).ok)
    ELSE NoMatch

labels == <<<<"o", "t", "o", "t", "a", "l", "d", "a", "s", "u", "a", "f", "a", "t", "u", "r", "a", "e">>, <<"t", "o", "t", "a", "l", "d", "e", "s", "t", "a", "f", "a", "t", "u", "r", "a">>>>

\* The float of a matched amount, as the total of a document.
Returned(match) == Total(Cents(parse_brl_amount(match.group)))

\* The first amount of the text, whatever precedes it.
find_first_amount(text) ==
    IF \E p \in 1..Len(text) : AmountAt(text, p).ok
    THEN Returned(AmountAt(text, CHOOSE p \in 1..Len(text) :
                                     /\ AmountAt(text, p).ok
                                     /\ \A q \in 1..(p - 1) : ~AmountAt(text, q).ok))
    ELSE NoTotal

find_total_in_text(text) ==
    IF \E n \in 1..Len(TOTAL_PATTERNS) : Search(TOTAL_PATTERNS[n], text).ok
    THEN Returned(Search(TOTAL_PATTERNS[CHOOSE n \in 1..Len(TOTAL_PATTERNS) :
                             /\ Search(TOTAL_PATTERNS[n], text).ok
                             /\ \A m \in 1..(n - 1) : ~Search(TOTAL_PATTERNS[m], text).ok],
                         text))
    ELSE IF \E n \in 1..Len(labels) : SearchLabel(labels[n], normalize_pdf_text(text)).ok
    THEN Returned(SearchLabel(labels[CHOOSE n \in 1..Len(labels) :
                             /\ SearchLabel(labels[n], normalize_pdf_text(text)).ok
                             /\ \A m \in 1..(n - 1) :
                                   ~SearchLabel(labels[m], normalize_pdf_text(text)).ok],
                         normalize_pdf_text(text)))
    ELSE NoTotal

(***************************************************************************)
(* Calls of find_total_in_text on the texts made of a few kinds of line.   *)
(***************************************************************************)
TDesta == <<"T", "o", "t", "a", "l", " ", "d", "e", "s", "t", "a", " ", "f", "a", "t", "u", "r", "a">>

TDestaUpper == <<"T", "O", "T", "A", "L", " ", " ", "D", "E", "S", "T", "A", " ", "F", "A", "T", "U", "R", "A">>

TAnterior == <<"T", "o", "t", "a", "l", " ", "d", "a", " ", "f", "a", "t", "u", "r", "a", " ", "a", "n", "t", "e", "r", "i", "o", "r">>

TDa == <<"T", "o", "t", "a", "l", " ", "d", "a", " ", "f", "a", "t", "u", "r", "a">>

TSua == <<"O", " ", "t", "o", "t", "a", "l", " ", "d", "a", " ", "s", "u", "a", " ", "f", "a", "t", "u", "r", "a", " ", "é", ":">>

TAmount == <<"1", ".", "2", "3", "4", ",", "5", "6">>

TCurrency == <<"R", "$", " ", "1", "0", ".", "5", "3", "2", ",", "5", "2">>

TextLines == {TDesta, TDestaUpper, TAnterior, TDa, TSua, TAmount, TCurrency}

MaxTextLines == 4

Texts ==
    {Join(l, <<"\n">>) : l \in UNION {[1..n -> TextLines] : n \in 1..MaxTextLines}}

LookupInit ==
    /\ pc = "lookup"
    /\ \E t \in Texts : lookup = [text |-> t, stage |-> "called", total |-> NoTotal]
    /\ ReconIdle
    /\ table = <<>>
    /\ WriterIdle
    /\ BatchIdle
    /\ ScanIdle
    /\ RegionIdle
    /\ AmountIdle
    /\ StoreIdle
    /\ SplitIdle
    /\ GroupIdle
    /\ ParseIdle
    /\ LoopIdle

FindTotal ==
    /\ pc = "lookup"
    /\ lookup.stage = "called"
    /\ lookup' = [lookup EXCEPT !.stage = "returned",
                                !.total = find_total_in_text(lookup.text)]
    /\ UNCHANGED <<pc, reconVars, table, writerVars, batchVars, scanVars, regionVars, amountVars, storeVars, splitVars, groupVars, parseVars, loopVars>>

LookupNext == FindTotal

SpecLookup == LookupInit /\ [][LookupNext]_vars

\* The lines of the text that was searched.
LinesOf(t) == Split(t, "\n")

IsDestaLabel(line) == line \in {TDesta, TDestaUpper}

IsAmountLine(line) == line \in {TAmount, TCurrency}

\* The value of an amount line, in cents.
LineCents(line) == IF line = TAmount THEN 123456 ELSE 1053252

\* The places of the amount lines that follow a label line.
AmountsAfterDesta ==
    {k \in 2..Len(LinesOf(lookup.text)) :
        IsDestaLabel(LinesOf(lookup.text)[k - 1]) /\ IsAmountLine(LinesOf(lookup.text)[k])}

AmountsAfterAnterior ==
    {k \in 2..Len(LinesOf(lookup.text)) :
        LinesOf(lookup.text)[k - 1] = TAnterior /\ IsAmountLine(LinesOf(lookup.text)[k])}

\* C19: when the text holds 'Total desta fatura' with an amount on the next
\* line and 'Total da fatura anterior' with an amount on the next line,
\* find_total_in_text returns an amount that follows 'Total desta fatura',
\* so the amount of the earlier invoice is returned only if it is that amount
\* as well.
C19_TotalOfThisInvoice ==
    (lookup.stage = "returned" /\ AmountsAfterDesta # {} /\ AmountsAfterAnterior # {}) =>
        /\ lookup.total.found
        /\ \E k \in AmountsAfterDesta :
              lookup.total.cents = LineCents(LinesOf(lookup.text)[k])

\* The total of the earlier invoice comes first in the text and differs from
\* the total of this one, which is returned.
C19_Witness ==
    /\ lookup.stage = "returned"
    /\ lookup.text = Join(<<TAnterior, TAmount, TDesta, TCurrency>>, <<"\n">>)
    /\ lookup.total = Total(1053252)

\* The places of the amount lines that follow, on the next line, a line
\* of the given labels; the pattern of 'O total da sua fatura é:' wants R$.
AmountsAfter(labelLines, amountLines) ==
    {k \in 2..Len(LinesOf(lookup.text)) :
        LinesOf(lookup.text)[k - 1] \in labelLines /\ LinesOf(lookup.text)[k] \in amountLines}

\* The places of the amount lines that come anywhere after a line of the
\* given labels.
AmountsBeyond(labelLines) ==
    {k \in 2..Len(LinesOf(lookup.text)) :
        /\ IsAmountLine(LinesOf(lookup.text)[k])
        /\ \E j \in 1..(k - 1) : LinesOf(lookup.text)[j] \in labelLines}

\* The amount at the first place of a set of places.
FirstOf(places) ==
    Total(LineCents(LinesOf(lookup.text)[CHOOSE k \in places : \A j \in places : k <= j]))

\* C24: the total returned is the amount of the first of the patterns
\* 'Total desta fatura', 'O total da sua fatura é:', 'Total da fatura', in
\* that order, that matches somewhere in the text; the labels of the
\* normalised text are looked for only when none matches, and nothing is
\* returned only when they give nothing either.
C24_FirstPatternInOrderWins ==
    lookup.stage = "returned" =>
        LET desta == AmountsAfter({TDesta, TDestaUpper}, {TAmount, TCurrency})
            sua == AmountsAfter({TSua}, {TCurrency})
            da == AmountsAfter({TDa}, {TAmount, TCurrency})
            suaLabel == AmountsBeyond({TSua})
            destaLabel == AmountsBeyond({TDesta, TDestaUpper})
        IN lookup.total =
              IF desta # {} THEN FirstOf(desta)
              ELSE IF sua # {} THEN FirstOf(sua)
              ELSE IF da # {} THEN FirstOf(da)
              ELSE IF suaLabel # {} THEN FirstOf(suaLabel)
              ELSE IF destaLabel # {} THEN FirstOf(destaLabel)
              ELSE NoTotal

\* 'Total da fatura' with its amount comes first in the text, 'Total desta
\* fatura' with another amount after it, and the latter is returned.
C24_Witness ==
    /\ lookup.stage = "returned"
    /\ lookup.text = Join(<<TDa, TAmount, TDesta, TCurrency>>, <<"\n">>)
    /\ lookup.total = Total(1053252)

(***************************************************************************)
(* Reconstruction of one document: blocks_to_statements, then the sign     *)
(* flip and the ids, over every block list built from a few line kinds.    *)
(***************************************************************************)
\* A date line, split by the PDF text reflow: "1/1 2" is 1/12.
LDate == <<"1", "/", "1", " ", "2">>
\* A one-word description line.
LText == <<"A", "B">>
\* A description line that holds a comma.
LComma == <<"C", ",", "5">>
\* An amount line.
LAmount == <<"1", ",", "5", "0">>
\* A two-word line: a description, or a category and a location.
LMeta == <<"E", " ", "F">>
\* A whole statement, a refund with a thousands separator: 2/3, G, - 1.000,50
LStatement == << <<"2", "/", "3">>, <<"G">>,
                 <<"-", " ", "1", ".", "0", "0", "0", ",", "5", "0">> >>

\* The end of a block (no line: lines hold one-character strings only).
Break == <<"break">>

\* What a document is built from: lines, and the end of a block.
Fragments ==
    {<<LDate>>, <<LText>>, <<LComma>>, <<LAmount>>, <<LMeta>>, LStatement, <<Break>>}

\* The longest document, in fragments.
MaxFrags == 4

FragSeqs == UNION {[1..n -> Fragments] : n \in 0..MaxFrags}

RECURSIVE Flatten(_)
Flatten(seqs) == IF seqs = <<>> THEN <<>> ELSE Head(seqs) \o Flatten(Tail(seqs))

RECURSIVE SplitBlocks(_, _)
\* The blocks of a line list: a new block starts after each Break.
SplitBlocks(lines, block) ==
    IF lines = <<>> THEN <<block>>
    ELSE IF Head(lines) = Break THEN <<block>> \o SplitBlocks(Tail(lines), <<>>)
    ELSE SplitBlocks(Tail(lines), Append(block, Head(lines)))

\* The blocks of the document written as a sequence of fragments; a block
\* without lines is no block (extract_blocks drops empty text).
BlocksOf(frags) == SelectSeq(SplitBlocks(Flatten(frags), <<>>), LAMBDA b : b # <<>>)

\* A due date in January.
January15 == <<"1", "5", "/", "0", "1", "/", "2", "4">>

PaymentDates == {None, March15, January15}

ReconInit ==
    /\ pc = "blocks"
    /\ \E f \in FragSeqs, p \in PaymentDates : doc = Document(BlocksOf(f), p)
    /\ enhanced \in BOOLEAN
    /\ statements = <<>>
    /\ rows = <<>>
    /\ ids = <<>>
    /\ table = <<>>
    /\ WriterIdle
    /\ BatchIdle
    /\ ScanIdle
    /\ RegionIdle
    /\ LookupIdle
    /\ AmountIdle
    /\ StoreIdle
    /\ SplitIdle
    /\ GroupIdle
    /\ ParseIdle
    /\ LoopIdle

\* statements = blocks_to_statements(text_blocks, resolved_year, payment_date, enhanced)
Reconstruct ==
    /\ pc = "blocks"
    /\ statements' = blocks_to_statements(doc.blocks, doc.year, doc.payment_date, enhanced)
    /\ pc' = "statements"
    /\ UNCHANGED <<doc, enhanced, rows, ids, table, writerVars, batchVars, scanVars, regionVars, lookupVars, amountVars, storeVars, splitVars, groupVars, parseVars, loopVars>>

\* rows = flip_sign_last_column(statements)
Flip ==
    /\ pc = "statements"
    /\ rows' = flip_sign_last_column(statements)
    /\ pc' = "rows"
    /\ UNCHANGED <<doc, enhanced, statements, ids, table, writerVars, batchVars, scanVars, regionVars, lookupVars, amountVars, storeVars, splitVars, groupVars, parseVars, loopVars>>

\* rows = apply_id_schema(rows)
Identify ==
    /\ pc = "rows"
    /\ ids' = apply_id_schema(rows)
    /\ pc' = "ids"
    /\ UNCHANGED <<doc, enhanced, statements, rows, table, writerVars, batchVars, scanVars, regionVars, lookupVars, amountVars, storeVars, splitVars, groupVars, parseVars, loopVars>>

ReconNext == Reconstruct \/ Flip \/ Identify

SpecRecon == ReconInit /\ [][ReconNext]_vars

(***************************************************************************)
(* Properties of the reconstruction                                        *)
(***************************************************************************)
\* The amount of an amount line as a row carries it: blanks and thousands
\* separators removed, the decimal comma made a point.
AmountText(line) == ReplaceChar(RemoveChar(RemoveWS(line), "."), ",", ".")

\* The payment date column of the rows of a document.
PaymentField(d) == IF d.payment_date = None THEN <<>> ELSE d.payment_date

\* The text of the lines from..to of a block, joined by blanks.
JoinedLines(lines, from, to) ==
    Join([k \in 1..(to - from + 1) |-> Strip(lines[from + k - 1])], <<" ">>)

\* The row with index n made of date line d, the lines between as the
\* description, and amount line a, without the columns after the amount.
RowOf(n, lines, d, a) ==
    Join(<<NatToStr(n),
           RemoveWS(lines[d]) \o <<"/">> \o doc.year,
           PaymentField(doc),
           JoinedLines(lines, d + 1, a - 1),
           AmountText(lines[a])>>, <<",">>)

\* Row number k comes from a date line, at least one line of description
\* after it and an amount line after those, all of one block.
ComesFromStatement(k) ==
    \E b \in 1..Len(doc.blocks) :
      LET lines == BlockLines(doc.blocks[b]) IN
      \E d \in 1..Len(lines), a \in 1..Len(lines) :
        /\ a >= d + 2
        /\ IsDatePattern(RemoveWS(lines[d]))
        /\ IsAmountPattern(RemoveWS(lines[a]))
        /\ JoinedLines(lines, d + 1, a - 1) # <<>>
        /\ IF enhanced
           THEN IsPrefix(RowOf(k - 1, lines, d, a) \o <<",">>, statements[k])
           ELSE statements[k] = RowOf(k - 1, lines, d, a)

\* The lines of the document that satisfy a test.
LinesWhere(Test(_)) ==
    LET all == Flatten([b \in 1..Len(doc.blocks) |-> BlockLines(doc.blocks[b])])
    IN Len(SelectSeq(all, Test))

DateLines == LinesWhere(LAMBDA line : IsDatePattern(RemoveWS(line)))

AmountLines == LinesWhere(LAMBDA line : IsAmountPattern(RemoveWS(line)))

\* C4: every row of blocks_to_statements, in both modes, comes from a date
\* line, a non-empty description and an amount line that follows them in the
\* same block; a date line that no amount line follows before the end of its
\* block gives no row, and no amount line gives more than one row.
C4_RowsAreCompleteStatements ==
    pc # "blocks" =>
      /\ \A k \in 1..Len(statements) : ComesFromStatement(k)
      /\ Len(statements) <= AmountLines

\* C4 witness: a document with more date lines than rows, one row at least.
C4_Witness ==
    /\ pc = "statements"
    /\ Len(statements) >= 1
    /\ DateLines > Len(statements)

\* The number that ends the id of a row, -1 when it is no number.
IdComponent(row) ==
    LET id == SplitMax(row, ",", 1)[1]
        n  == SubSeq(id, LastIdx(id, "-") + 1, Len(id))
    IN IF n # <<>> /\ AllDigits(n) THEN StrToNat(n) ELSE 0 - 1

\* C7: the numbers that end the ids of the rows of one document are 1..N
\* in the order of reconstruction, across all blocks, without gap or repeat,
\* N being the number of rows emitted.
C7_IdsCountFromOne ==
    pc = "ids" =>
      /\ Len(ids) = Len(statements)
      /\ \A k \in 1..Len(ids) : IdComponent(ids[k]) = k

\* C7 witness: two rows or more, amount lines in two blocks or more, and
\* lines that belong to no row.
C7_Witness ==
    /\ pc = "ids"
    /\ Len(ids) >= 2
    /\ Cardinality({b \in 1..Len(doc.blocks) :
           \E k \in 1..Len(doc.blocks[b]) :
              IsAmountPattern(RemoveWS(doc.blocks[b][k]))}) >= 2
    /\ LinesWhere(LAMBDA line : TRUE) > 3 * Len(ids)

\* The amount column of a row: the last one, or the last but two when the
\* row ends with category and location.
AmountColumn(row) ==
    LET f == Split(row, ",") IN f[Len(f) - (IF enhanced THEN 2 ELSE 0)]

\* C3: the amount of every row after flip_sign_last_column is the negation
\* of the amount parsed for the statement, whatever the description holds.
C3_FlipNegatesAmount ==
    pc \in {"rows", "ids"} =>
      /\ Len(rows) = Len(statements)
      /\ \A k \in 1..Len(rows) :
           LET parsed  == ParseFloat(AmountColumn(statements[k]))
               flipped == ParseFloat(AmountColumn(rows[k]))
           IN /\ parsed.ok /\ flipped.ok
              /\ Cents(flipped) = 0 - Cents(parsed)

\* A block that is one installment purchase: a date line, lines of plain
\* text, a date-like tag and an amount line.
IsInstallmentBlock(block) ==
    LET n == Len(block) IN
    /\ n >= 4
    /\ IsDatePattern(RemoveWS(block[1]))
    /\ \A k \in 2..(n - 2) :
         /\ ~IsDatePattern(RemoveWS(block[k]))
         /\ ~IsAmountPattern(RemoveWS(block[k]))
         /\ Strip(block[k]) # <<>>
    /\ IsDatePattern(RemoveWS(block[n - 1]))
    /\ IsAmountPattern(RemoveWS(block[n]))

\* C10: in basic mode a block made of a date line, a description, a DD/MM
\* tag and an amount line gives exactly one row, and its description is the
\* description line followed by the tag.
C10_InstallmentTagEndsDescription ==
    (/\ pc # "blocks"
     /\ ~enhanced
     /\ Len(doc.blocks) = 1
     /\ IsInstallmentBlock(doc.blocks[1])) =>
      LET block == doc.blocks[1]
          n     == Len(block)
      IN /\ Len(statements) = 1
         /\ statements[1] =
              Join(<<<<"0">>,
                     RemoveWS(block[1]) \o <<"/">> \o doc.year,
                     PaymentField(doc),
                     JoinedLines(block, 2, n - 2) \o <<" ">> \o RemoveWS(block[n - 1]),
                     AmountText(block[n])>>, <<",">>)

\* C10 witness: such a block has been reconstructed in basic mode.
C10_Witness ==
    /\ pc = "statements"
    /\ ~enhanced
    /\ Len(doc.blocks) = 1
    /\ IsInstallmentBlock(doc.blocks[1])
    /\ Len(statements) = 1

\* C11: in enhanced mode a block made of a date line, a description, a DD/MM
\* tag followed by an amount line gives exactly one row: the tag is appended
\* to the description and the amount closes that same statement.
C11_EnhancedInstallmentTag ==
    (/\ pc # "blocks"
     /\ enhanced
     /\ Len(doc.blocks) = 1
     /\ IsInstallmentBlock(doc.blocks[1])) =>
      LET block == doc.blocks[1]
          n     == Len(block)
      IN /\ Len(statements) = 1
         /\ IsPrefix(
              Join(<<<<"0">>,
                     RemoveWS(block[1]) \o <<"/">> \o doc.year,
                     PaymentField(doc),
                     JoinedLines(block, 2, n - 2) \o <<" ">> \o RemoveWS(block[n - 1]),
                     AmountText(block[n])>>, <<",">>) \o <<",">>,
              statements[1])

\* Row number k comes from a date line d and an amount line a of one block
\* with no other date line between them, but for an installment tag right
\* before the amount.
ComesFromOneStatement(k) ==
    \E b \in 1..Len(doc.blocks) :
      LET lines == BlockLines(doc.blocks[b]) IN
      \E d \in 1..Len(lines), a \in 1..Len(lines) :
        /\ a >= d + 2
        /\ IsDatePattern(RemoveWS(lines[d]))
        /\ IsAmountPattern(RemoveWS(lines[a]))
        /\ \A j \in (d + 1)..(a - 2) : ~IsDatePattern(RemoveWS(lines[j]))
        /\ IF enhanced
           THEN IsPrefix(RowOf(k - 1, lines, d, a) \o <<",">>, statements[k])
           ELSE statements[k] = RowOf(k - 1, lines, d, a)

\* C12: in both modes a date line that is no installment tag, met while a
\* statement is accumulating without an amount, discards that statement and
\* opens a new one: no row joins the date or the description of the
\* discarded statement to the later amount.
C12_DateLineAbortsStatement ==
    pc # "blocks" => \A k \in 1..Len(statements) : ComesFromOneStatement(k)

\* The date column of a row, as day, month and year texts.
DateColumn(row) == Split(SplitMax(row, ",", 2)[2], "/")

\* The month of the due date of the document, 0 when it has none.
DueMonth == IF doc.payment_date = None THEN 0 ELSE StrToNat(SubSeq(doc.payment_date, 4, 5))

\* The two-digit year of the due date, or of the issue date when the document
\* has no due date.
DueYear == IF doc.payment_date = None THEN doc.year ELSE SubSeq(doc.payment_date, 7, 8)

\* C18: a DD/12 date of a document due in January is completed with the
\* year before the year of the due date, every other date with the year of
\* the due (or issue) date.
C18_DecemberBeforeJanuaryDue ==
    pc = "statements" =>
      \A k \in 1..Len(statements) :
        LET date == DateColumn(statements[k]) IN
        /\ Len(date) = 3
        /\ date[3] = IF StrToNat(date[2]) = 12 /\ DueMonth = 1
                     THEN TwoDigits(StrToNat(DueYear) - 1)
                     ELSE DueYear

(***************************************************************************)
(* The loop of _parse_block_with_metadata, one line at a time              *)
(***************************************************************************)
\* A second line of category and location.
LMeta2 == <<"H", " ", "I">>

ScanFragments ==
    {<<LDate>>, <<LText>>, <<LAmount>>, <<LMeta>>, <<LMeta2>>, LStatement}

\* The longest block scanned, in fragments.
MaxScanFrags == 4

ScanBlocks == {Flatten(f) : f \in UNION {[1..n -> ScanFragments] : n \in 1..MaxScanFrags}}

\* The lines the loop runs over.
ScanLines == BlockLines(doc.blocks[1])

ScanInit ==
    /\ pc = "scan"
    /\ \E b \in ScanBlocks : doc = Document(<<b>>, None)
    /\ enhanced = TRUE
    /\ scan = [i |-> 1, statements |-> <<>>, pending |-> <<>>, current |-> NoStatement]
    /\ statements = <<>>
    /\ rows = <<>>
    /\ ids = <<>>
    /\ table = <<>>
    /\ WriterIdle
    /\ BatchIdle
    /\ RegionIdle
    /\ LookupIdle
    /\ AmountIdle
    /\ StoreIdle
    /\ SplitIdle
    /\ GroupIdle
    /\ ParseIdle
    /\ LoopIdle

\* One pass of the while loop.
ScanLine ==
    /\ pc = "scan"
    /\ scan.i <= Len(ScanLines)
    /\ scan' = EnhancedIter(ScanLines, scan)
    /\ UNCHANGED <<pc, reconVars, table, writerVars, batchVars, regionVars, lookupVars, amountVars, storeVars, splitVars, groupVars, parseVars, loopVars>>

\* The loop has ended: the closed statements are made rows.
ScanOutput ==
    /\ pc = "scan"
    /\ scan.i > Len(ScanLines)
    /\ statements' = EnhancedOutput(scan.statements, doc.year, doc.payment_date,
                                    FirstIndex).rows
    /\ pc' = "scanned"
    /\ UNCHANGED <<doc, enhanced, rows, ids, table, writerVars, batchVars, scanVars, regionVars, lookupVars, amountVars, storeVars, splitVars, groupVars, parseVars, loopVars>>

ScanNext == ScanLine \/ ScanOutput

SpecScan == ScanInit /\ [][ScanNext]_vars

\* The pending queue holds the statements closed last, oldest first, and no
\* statement in it has a category or a location.
PendingAreNewest(st) ==
    LET n == Len(st.statements)
        q == Len(st.pending)
    IN /\ q <= n
       /\ \A j \in 1..q :
            /\ st.pending[j] = n - q + j
            /\ st.statements[st.pending[j]].category = <<>>
            /\ st.statements[st.pending[j]].location = <<>>

\* C13: metadata lines go to the closed statements first in, first out: a
\* line taken as metadata removes the head of the pending queue and nothing
\* else, gives its category and location to that statement, the oldest one
\* without metadata, and no statement gets metadata twice.
C13_MetadataFirstInFirstOut ==
    [][/\ PendingAreNewest(scan) /\ PendingAreNewest(scan')
       /\ Len(scan'.pending) < Len(scan.pending) =>
            LET head  == Head(scan.pending)
                parts == RSplitLast(Strip(ScanLines[scan.i]))
            IN /\ scan'.pending = Tail(scan.pending)
               /\ scan'.statements =
                    [scan.statements EXCEPT ![head] =
                        [@ EXCEPT !.category = Strip(parts[1]),
                                  !.location = Strip(parts[2])]]
               /\ \A j \in 1..(head - 1) : scan.statements[j].category # <<>>]_vars

\* C13 witness: two statements were closed before two lines of metadata, and
\* the first line went to the first statement, the second to the second.
C13_Witness ==
    /\ pc = "scan"
    /\ Len(scan.statements) = 2
    /\ scan.pending = <<>>
    /\ scan.statements[1].category # scan.statements[2].category
    /\ scan.statements[1].category \in {<<"E">>, <<"H">>}
    /\ scan.statements[2].category \in {<<"E">>, <<"H">>}
    /\ ScanLines[5] = <<"G">>

\* C14: a line of one token that is no date, met while statements are
\* pending and none is accumulating, becomes the category of the oldest
\* pending statement, its location staying empty, and leaves the queue
\* without that statement.
C14_SingleTokenIsCategory ==
    [][(/\ pc = "scan"
        /\ scan.i <= Len(ScanLines)
        /\ scan.pending # <<>>
        /\ ~Accumulating(scan.current)
        /\ ~IsDatePattern(RemoveWS(ScanLines[scan.i]))
        /\ TokenCount(ScanLines[scan.i]) = 1) =>
          /\ scan'.pending = Tail(scan.pending)
          /\ scan'.statements[Head(scan.pending)].category = Strip(ScanLines[scan.i])
          /\ scan'.statements[Head(scan.pending)].location = <<>>]_vars

\* The places in scan.pending, as a set.
PendingSet == {scan.pending[j] : j \in 1..Len(scan.pending)}

\* C29: a closed statement that the output loop will drop for its empty
\* description is never in the pending queue and never holds the category
\* or location of a metadata line.
C29_DroppedStatementsTakeNoMetadata ==
    \A j \in 1..Len(scan.statements) :
        scan.statements[j].desc = <<>> =>
            /\ j \notin PendingSet
            /\ scan.statements[j].category = <<>>
            /\ scan.statements[j].location = <<>>

(***************************************************************************)
(* The region bounder: the page loop of the extractors.  A page is two    *)
(* columns of lines, top to bottom; the y0 of a line is its place in the  *)
(* column.  kind says which marker the normalised text of the line holds: *)
(* "start" for "lancamentos:comprasesaques", "stop" for                   *)
(* "comprasparceladas", "plain" for neither.  head says whether the line  *)
(* opens a text block of page.get_text("blocks"); a block has the y0 of   *)
(* the line that opens it.  A document is read lazily, one page at a time.*)
(***************************************************************************)

Kinds == {"plain", "start", "stop"}

MaxLines == 2

MaxPages == 2

Layouts == {"modern", "legacy"}

\* The columns a page can have: the first line of a column opens a block.
Columns ==
    {c \in UNION {[1..n -> [kind : Kinds, head : BOOLEAN]] : n \in 0..MaxLines} :
        Len(c) > 0 => c[1].head}

Pages == [left : Columns, right : Columns]

\* _extract_page_lines for one column: the lines with their y0.
LineInfos(column) == [k \in 1..Len(column) |-> [y0 |-> k, kind |-> column[k].kind]]

\* The marker scan of one column from line k on: the start marker is looked
\* for in the modern layout only, and the scan of the column ends at the
\* first stop marker.
RECURSIVE ScanColumn(_, _, _, _)
ScanColumn(lines, k, layout, start) ==
    IF k > Len(lines) THEN [start |-> start, stop |-> NoY]
    ELSE LET found == IF layout = "modern" /\ ~start.set /\ lines[k].kind = "start"
                      THEN Y(lines[k].y0) ELSE start
         IN IF lines[k].kind = "stop"
            THEN [start |-> found, stop |-> Y(lines[k].y0)]
            ELSE ScanColumn(lines, k + 1, layout, found)

\* The marker dictionary of a page.
PageMarker(page, layout) ==
    LET l == ScanColumn(LineInfos(page.left), 1, layout, NoY)
        r == ScanColumn(LineInfos(page.right), 1, layout, NoY)
    IN [left |-> l.stop, right |-> r.stop, start_left |-> l.start, start_right |-> r.start]

\* The page loops go on to the next page only when this is false.
MarkerStopsLeftOnly(marker) == marker.left.set

MarkerStops(marker) == marker.left.set \/ marker.right.set

BelowOrAt(lines, y) == SelectSeq(lines, LAMBDA line : line.y0 >= y.y0)

Below(lines, y) == SelectSeq(lines, LAMBDA line : line.y0 > y.y0)

Above(lines, y) == SelectSeq(lines, LAMBDA line : line.y0 < y.y0)

_apply_marker(page_lines, marker) ==
    LET left0 == IF marker.start_left.set THEN Below(page_lines.left, marker.start_left)
                 ELSE page_lines.left
        right0 == IF marker.start_right.set THEN Below(page_lines.right, marker.start_right)
                  ELSE page_lines.right
    IN IF marker.left.set THEN [left |-> Above(left0, marker.left), right |-> <<>>]
       ELSE IF marker.right.set THEN [left |-> left0, right |-> Above(right0, marker.right)]
       ELSE [left |-> left0, right |-> right0]

\* page.get_text("blocks") clipped to one column: a block runs from a head
\* line to the line before the next head.
BlockEnd(column, h) ==
    IF \E k \in (h + 1)..Len(column) : column[k].head
    THEN (CHOOSE k \in (h + 1)..Len(column) :
              column[k].head /\ \A j \in (h + 1)..(k - 1) : ~column[j].head) - 1
    ELSE Len(column)

RECURSIVE TextBlocks(_, _, _)
TextBlocks(name, column, h) ==
    IF h > Len(column) THEN <<>>
    ELSE <<[column |-> name, y0 |-> h,
            lines |-> SubSeq(LineInfos(column), h, BlockEnd(column, h))]>>
         \o TextBlocks(name, column, BlockEnd(column, h) + 1)

\* The blocks _iter_page_blocks keeps of one column.
KeptBlocks(blocks, start_y, end_y) ==
    SelectSeq(blocks, LAMBDA b : /\ ~(start_y.set /\ b.y0 <= start_y.y0)
                                 /\ ~(end_y.set /\ b.y0 >= end_y.y0))

page_blocks(page, marker) ==
    KeptBlocks(TextBlocks("left", page.left, 1), marker.start_left, marker.left)
    \o KeptBlocks(TextBlocks("right", page.right, 1), marker.start_right, marker.right)

should_include(b, marker) ==
    IF b.column = "left" /\ marker.left.set THEN b.y0 < marker.left.y0
    ELSE IF b.column = "right" /\ marker.right.set THEN b.y0 < marker.right.y0
    ELSE TRUE

\* The body of the loop of extract_blocks: the blocks one page adds.  The
\* blocks of a column are already in the order of their y0.
left_blocks(blocks, marker) ==
    SelectSeq(blocks, LAMBDA b : b.column = "left" /\ should_include(b, marker))

right_blocks(blocks, marker) ==
    IF marker.left.set THEN <<>>
    ELSE SelectSeq(blocks, LAMBDA b : b.column = "right" /\ should_include(b, marker))

extract_blocks(page, marker) ==
    left_blocks(page_blocks(page, marker), marker)
    \o right_blocks(page_blocks(page, marker), marker)

RegionInit ==
    /\ pc = "region"
    /\ \E layout \in Layouts :
          region = [layout |-> layout, stage |-> "next", pageNo |-> 0, page |-> NoPage,
                    lines |-> NoPage, blocks |-> <<>>, stopPage |-> 0]
    /\ ReconIdle
    /\ table = <<>>
    /\ WriterIdle
    /\ BatchIdle
    /\ ScanIdle
    /\ LookupIdle
    /\ AmountIdle
    /\ StoreIdle
    /\ SplitIdle
    /\ GroupIdle
    /\ ParseIdle
    /\ LoopIdle

HasStop(column) == \E k \in 1..Len(column) : column[k].kind = "stop"

\* The generator gives the next page, its marker and what the page
\* contributes: the lines of _apply_marker and the blocks of extract_blocks.
ReadPage ==
    /\ pc = "region"
    /\ region.stage = "next"
    /\ region.pageNo < MaxPages
    /\ \E page \in Pages :
          LET marker == PageMarker(page, region.layout)
              lines == [left |-> LineInfos(page.left), right |-> LineInfos(page.right)]
          IN region' = [region EXCEPT
                 !.stage = "page",
                 !.pageNo = @ + 1,
                 !.page = page,
                 !.lines = _apply_marker(lines, marker),
                 !.blocks = extract_blocks(page, marker),
                 !.stopPage = IF @ = 0 /\ (HasStop(page.left) \/ HasStop(page.right))
                              THEN region.pageNo + 1 ELSE @]
    /\ UNCHANGED <<pc, reconVars, table, writerVars, batchVars, scanVars, lookupVars, amountVars, storeVars, splitVars, groupVars, parseVars, loopVars>>

\* The end of the loop body: break after a page with a stop marker,
\* otherwise the page's lines and blocks are in the result and the loop
\* goes on.
AfterPage ==
    /\ pc = "region"
    /\ region.stage = "page"
    /\ region' = IF MarkerStops(PageMarker(region.page, region.layout))
                  THEN [region EXCEPT !.stage = "end"]
                  ELSE [region EXCEPT !.stage = "next", !.page = NoPage,
                                      !.lines = NoPage, !.blocks = <<>>]
    /\ UNCHANGED <<pc, reconVars, table, writerVars, batchVars, scanVars, lookupVars, amountVars, storeVars, splitVars, groupVars, parseVars, loopVars>>

\* The document has no more pages.
LastPage ==
    /\ pc = "region"
    /\ region.stage = "next"
    /\ region' = [region EXCEPT !.stage = "end"]
    /\ UNCHANGED <<pc, reconVars, table, writerVars, batchVars, scanVars, lookupVars, amountVars, storeVars, splitVars, groupVars, parseVars, loopVars>>

RegionNext == ReadPage \/ AfterPage \/ LastPage

SpecRegion == RegionInit /\ [][RegionNext]_vars

(***************************************************************************)
(* Properties of the region bounder.                                       *)
(***************************************************************************)
\* The y0 of the first stop marker of a column, 0 when it has none.
FirstStop(column) ==
    IF HasStop(column)
    THEN CHOOSE k \in 1..Len(column) :
             column[k].kind = "stop" /\ \A j \in 1..(k - 1) : column[j].kind # "stop"
    ELSE 0

\* The y0 of the first start marker of a column, 0 when it has none.
FirstStart(column) ==
    IF \E k \in 1..Len(column) : column[k].kind = "start"
    THEN CHOOSE k \in 1..Len(column) :
             column[k].kind = "start" /\ \A j \in 1..(k - 1) : column[j].kind # "start"
    ELSE 0

\* The lines of a column that the page contributed, by their y0: those
\* _apply_marker kept and those inside the blocks extract_blocks kept.
LinesKept(name) == {region.lines[name][k].y0 : k \in 1..Len(region.lines[name])}

LinesInBlocks(name) ==
    UNION {{region.blocks[b].lines[k].y0 : k \in 1..Len(region.blocks[b].lines)} :
              b \in {c \in 1..Len(region.blocks) : region.blocks[c].column = name}}

\* C15: when the left column of a page holds a stop marker, the page
\* contributes no line of its right column, no line of its left column at or
\* below the marker, and the loop ends with that page.
C15_LeftStopMarkerEndsPage ==
    [][(region.stage = "page" /\ HasStop(region.page.left)) =>
          /\ LinesKept("right") = {}
          /\ LinesInBlocks("right") = {}
          /\ \A y \in LinesKept("left") \cup LinesInBlocks("left") :
                y < FirstStop(region.page.left)
          /\ region'.stage = "end"]_vars

\* C16: once a page holds a stop marker, in either column and in either
\* layout, that page is the last one read: no later page is read, so no line
\* or block of a later page is contributed.
C16_NothingAfterStopPage ==
    region.stopPage # 0 => region.pageNo = region.stopPage /\ region.stage # "next"

\* The first page holds a stop marker in its right column only, pages could
\* follow, and the loop has ended.
C16_Witness ==
    /\ region.stage = "end"
    /\ region.stopPage = 1
    /\ region.pageNo < MaxPages
    /\ HasStop(region.page.right)
    /\ ~HasStop(region.page.left)

\* The scan of a column sees a start marker: the layout is modern and the
\* first start marker lies above the first stop marker of the column.
SeesStart(column) ==
    /\ region.layout = "modern"
    /\ FirstStart(column) # 0
    /\ FirstStop(column) = 0 \/ FirstStart(column) < FirstStop(column)

\* C17 as stated: in the modern layout a line is contributed only if it
\* lies below a start marker of its column, so a column without a start
\* marker contributes nothing; in the legacy layout every line above the
\* stop marker is contributed (the right column only when the left column
\* holds no stop marker).
C17_StartMarkerRequired ==
    region.stage = "page" =>
        \A name \in {"left", "right"} :
            /\ region.layout = "modern" =>
                  \A y \in LinesKept(name) \cup LinesInBlocks(name) :
                      FirstStart(region.page[name]) # 0 /\ y > FirstStart(region.page[name])
            /\ (region.layout = "legacy" /\ (name = "right" => ~HasStop(region.page.left))) =>
                  \A y \in 1..Len(region.page[name]) :
                      (FirstStop(region.page[name]) = 0 \/ y < FirstStop(region.page[name]))
                          => y \in LinesKept(name) /\ y \in LinesInBlocks(name)

\* The lines of a column that are in scope: below the start marker when the
\* scan saw one, above the stop marker when the column holds one, and none of
\* the right column when the left column holds a stop marker.
InScope(name) ==
    {y \in 1..Len(region.page[name]) :
        /\ SeesStart(region.page[name]) => y > FirstStart(region.page[name])
        /\ FirstStop(region.page[name]) # 0 => y < FirstStop(region.page[name])
        /\ name = "right" => ~HasStop(region.page.left)}

\* C17, amended: a start marker bounds a column only where the scan saw one.
\* The lines _apply_marker keeps are exactly the lines in scope, and no block
\* holds a line at or above a start marker that was seen.
C17_StartMarkerBoundsWhenSeen ==
    region.stage = "page" =>
        \A name \in {"left", "right"} :
            /\ LinesKept(name) = InScope(name)
            /\ SeesStart(region.page[name]) =>
                  \A y \in LinesInBlocks(name) : y > FirstStart(region.page[name])

\* A modern page whose left column has a line below its start marker and
\* whose right column has no start marker and still contributes a line.
C17_Witness ==
    /\ region.stage = "page"
    /\ region.layout = "modern"
    /\ FirstStart(region.page.left) = 1
    /\ 2 \in LinesKept("left")
    /\ FirstStart(region.page.right) = 0
    /\ LinesKept("right") # {}

\* The page with the stop markers of its right column made plain lines.
WithoutRightStop(page) ==
    [page EXCEPT !.right = [k \in 1..Len(page.right) |->
        [page.right[k] EXCEPT !.kind = IF @ = "stop" THEN "plain" ELSE @]]]

\* The y0 of the lines of the left column a page contributes, by the lines
\* of _apply_marker and by the blocks of extract_blocks.
LeftLinesOf(page) ==
    LET kept == _apply_marker([left |-> LineInfos(page.left), right |-> LineInfos(page.right)],
                              PageMarker(page, region.layout)).left
    IN {kept[k].y0 : k \in 1..Len(kept)}

LeftBlockLinesOf(page) ==
    LET blocks == extract_blocks(page, PageMarker(page, region.layout))
    IN UNION {{blocks[b].lines[k].y0 : k \in 1..Len(blocks[b].lines)} :
                 b \in {c \in 1..Len(blocks) : blocks[c].column = "left"}}

\* C23: when the right column of a page holds a stop marker and the left
\* column holds none, the right column contributes exactly its lines in scope
\* above the marker, no line at or below it, and the left column contributes
\* what it would contribute if the right column held no stop marker.
C23_RightStopTruncatesRightOnly ==
    (region.stage = "page" /\ HasStop(region.page.right) /\ ~HasStop(region.page.left)) =>
        /\ LinesKept("right") = InScope("right")
        /\ \A y \in LinesInBlocks("right") : y < FirstStop(region.page.right)
        /\ LinesKept("left") = LeftLinesOf(WithoutRightStop(region.page))
        /\ LinesInBlocks("left") = LeftBlockLinesOf(WithoutRightStop(region.page))

(***************************************************************************)
(* Direct calls of the merge writer on one output table                    *)
(***************************************************************************)
\* A purchase row and a refund row as the pipeline writes them.
RowCoffee ==
    <<"2", "0", "2", "4", "-", "D", "E", "C", "-", "1", ",",
      "1", "2", "/", "0", "1", "/", "2", "4", ",", ",", "A", "B", ",", "-", "1", ".", "5">>

RowRefund ==
    <<"2", "0", "2", "4", "-", "D", "E", "C", "-", "2", ",",
      "0", "3", "/", "0", "2", "/", "2", "4", ",", ",", "G", ",", "5", ".", "0">>

\* A row that reads like the header line.
RowHeader == Join(CSV_HEADERS, <<",">>)

WriterRows == {RowCoffee, RowRefund, RowHeader}

\* The longest row list of one call.
MaxRows == 2

\* The number of calls in one run.
MaxCalls == 2

RowLists == UNION {[1..n -> WriterRows] : n \in 0..MaxRows}

\* The tables a run starts from: no file, and what earlier calls left.
ExistingTables ==
    {<<>>,
     write_csv_lines_idempotent(<<>>, <<>>, TRUE, CSV_HEADERS).table,
     write_csv_lines_idempotent(<<>>, <<RowCoffee>>, TRUE, CSV_HEADERS).table,
     write_csv_lines_idempotent(<<>>, <<RowRefund, RowCoffee>>, FALSE, CSV_HEADERS).table}

WriterInit ==
    /\ pc = "writer"
    /\ table \in ExistingTables
    /\ inclHeaders \in BOOLEAN
    /\ callRows = <<>>
    /\ added = 0
    /\ ncalls = 0
    /\ ReconIdle
    /\ BatchIdle
    /\ ScanIdle
    /\ RegionIdle
    /\ LookupIdle
    /\ AmountIdle
    /\ StoreIdle
    /\ SplitIdle
    /\ GroupIdle
    /\ ParseIdle
    /\ LoopIdle

\* added = write_csv_lines_idempotent(S, output, include_headers=inclHeaders)
WriteCall ==
    /\ pc = "writer"
    /\ ncalls < MaxCalls
    /\ \E S \in RowLists :
         LET w == write_csv_lines_idempotent(table, S, inclHeaders, CSV_HEADERS) IN
         /\ table' = w.table
         /\ added' = w.added
         /\ callRows' = S
    /\ ncalls' = ncalls + 1
    /\ UNCHANGED <<pc, inclHeaders, reconVars, batchVars, scanVars, regionVars, lookupVars, amountVars, storeVars, splitVars, groupVars, parseVars, loopVars>>

WriterNext == WriteCall

SpecWriter == WriterInit /\ [][WriterNext]_vars

(***************************************************************************)
(* Properties of the merge writer                                          *)
(***************************************************************************)
\* C1: calling write_csv_lines_idempotent with a row list and then again
\* with the same row list leaves the table of the first call: the second
\* call returns 0 and adds nothing.
C1_SecondCallAddsNothing ==
    [][(/\ ncalls >= 1
        /\ ncalls' = ncalls + 1
        /\ callRows' = callRows) => (added' = 0 /\ table' = table)]_vars

\* C9: a call of write_csv_lines_idempotent only appends: every record the
\* table held before the call is in it afterwards, unchanged, at its place.
C9_WriterOnlyAppends == [][IsPrefix(table, table')]_vars

\* C9 witness: a call has added rows to a table that held rows before.
C9_Witness ==
    /\ pc = "writer"
    /\ ncalls >= 1
    /\ added >= 1
    /\ Len(table) > added + 1

(***************************************************************************)
(* Runs of the entry points: parse_itau over a batch of documents, and     *)
(* parse_itau_pdf over one document                                        *)
(***************************************************************************)
\* Lines of the documents of the catalogue.
LDue == <<"1", "/", "1", "2">>

\* A purchase of 1,50 on 1/12 with --output's usual shape; its printed
\* total agrees with its rows.
PdfA == Pdf("a.pdf", << <<LDue, LText, LAmount>> >>, March15, Total(150), TRUE, TRUE)

\* A refund, paid in the same month as PdfA; its printed total disagrees.
PdfB == Pdf("b.pdf", <<LStatement>>, March15, Total(100), TRUE, TRUE)

\* Two blocks, a comma in a description; no payment date, no printed total
\* and no card digits are found.
PdfC == Pdf("c.pdf", << <<LDate, LComma, LAmount>>, LStatement >>, None, NoTotal,
            TRUE, FALSE)

\* A file fitz.open raises on.
PdfD == Pdf("d.pdf", <<>>, None, NoTotal, FALSE, FALSE)

Catalogue == {PdfA, PdfB, PdfC, PdfD}

\* The most documents in one run.
MaxBatch == 2

\* The document lists of a run: documents of the catalogue, none twice.
Batches ==
    {b \in UNION {[1..n -> Catalogue] : n \in 1..MaxBatch} :
        \A i \in 1..Len(b), j \in 1..Len(b) : i # j => b[i] # b[j]}

\* The --total option: absent, "1,50", or a text that is no number.
ManualTotals == {None, <<"1", ",", "5", "0">>, <<"x">>}

\* manual_total of parse_itau: parse_brl_amount for a text with a comma,
\* float otherwise.
ManualTotal(total) ==
    LET cleaned == Strip(total) IN
    IF \E k \in 1..Len(cleaned) : cleaned[k] = ","
    THEN parse_brl_amount(cleaned)
    ELSE ParseFloat(cleaned)

\* headers = CSV_HEADERS_ENHANCED if enhanced else CSV_HEADERS
HeadersFor(enh) == IF enh THEN CSV_HEADERS_ENHANCED ELSE CSV_HEADERS

\* The rows of a document as parse_itau hands them to the writer.
RowsToWrite(d, enh) ==
    localize_rows(apply_id_schema(flip_sign_last_column(
        blocks_to_statements(d.blocks, d.year, d.payment_date, enh))))

\* The output table a run with --output starts from: no file, or the file
\* an earlier run on PdfA left.
TablesBefore(enh) ==
    {<<>>,
     write_csv_lines_idempotent(<<>>, RowsToWrite(PdfA, enh), TRUE, HeadersFor(enh)).table}

Init ==
    /\ pc = "start"
    /\ \/ /\ entry = "parse_itau"
          /\ opts \in [merge : BOOLEAN, output : BOOLEAN, rename : BOOLEAN,
                       total : ManualTotals]
          /\ enhanced \in BOOLEAN
          /\ batch \in Batches
          /\ table \in (IF opts.output THEN TablesBefore(enhanced) ELSE {<<>>})
       \/ /\ entry = "parse_itau_pdf"
          /\ opts \in [merge : {FALSE}, output : {FALSE}, rename : {FALSE},
                       total : {t \in ManualTotals : t = None \/ ManualTotal(t).ok}]
          /\ enhanced = FALSE
          /\ batch \in {<<d>> : d \in Catalogue}
          /\ table = <<>>
    /\ doc = Document(<<>>, None)
    /\ statements = <<>>
    /\ rows = <<>>
    /\ ids = <<>>
    /\ di = 0
    /\ all_rows = <<>>
    /\ files = <<>>
    /\ stdout = <<>>
    /\ returned = <<>>
    /\ total_mismatches = <<>>
    /\ total_missing = <<>>
    /\ error = "none"
    /\ emitted = {}
    /\ flips = 0
    /\ reconFlips = 0 - 1
    /\ WriterIdle
    /\ ScanIdle
    /\ RegionIdle
    /\ LookupIdle
    /\ AmountIdle
    /\ StoreIdle
    /\ SplitIdle
    /\ GroupIdle
    /\ ParseIdle
    /\ LoopIdle

\* The step that the order of the statements of the loop body gives after
\* a step, for the transition of the same name.
StageAfterFlipFirst(stage) ==
    CASE stage = "extract"   -> "flip"
      [] stage = "flip"      -> "reconcile"
      [] stage = "reconcile" -> IF entry = "parse_itau" THEN "rename" ELSE "return"
      [] OTHER               -> "emit"

\* The step after a step, by the order of the statements: statements,
\* check_total, flip_sign_last_column, then the rename and the writing in
\* parse_itau, the return in parse_itau_pdf.
StageAfter(stage) ==
    CASE stage = "extract"   -> "reconcile"
      [] stage = "reconcile" -> "flip"
      [] stage = "flip"      -> IF entry = "parse_itau" THEN "rename" ELSE "return"
      [] OTHER               -> "emit"

\* parse_itau before its loop: manual_total, and the test of --output with
\* several PDFs.  A BadParameter ends the run.
Start ==
    /\ pc = "start"
    /\ IF /\ entry = "parse_itau"
          /\ opts.total # None
          /\ ~ManualTotal(opts.total).ok
       THEN pc' = "rejected" /\ error' = "invalid_total" /\ di' = di
       ELSE IF /\ entry = "parse_itau"
               /\ Len(batch) > 1 /\ opts.output /\ ~opts.merge
       THEN pc' = "rejected" /\ error' = "use_merge" /\ di' = di
       ELSE pc' = "extract" /\ error' = error /\ di' = 1
    /\ UNCHANGED <<reconVars, table, writerVars, entry, opts, batch, all_rows,
                   files, stdout, returned, total_mismatches, total_missing,
                   emitted, flips, reconFlips, scanVars, regionVars, lookupVars, amountVars, storeVars, splitVars, groupVars, parseVars, loopVars>>

\* The head of the loop body: the year, the payment date and the blocks are
\* read from the PDF, and the statements reconstructed.  fitz.open raising
\* is caught nowhere.
Extract ==
    /\ pc = "extract"
    /\ doc' = batch[di]
    /\ IF ~batch[di].readable
       THEN /\ pc' = "crashed"
            /\ error' = "unreadable"
            /\ UNCHANGED <<statements, rows, flips, reconFlips>>
       ELSE /\ statements' = blocks_to_statements(batch[di].blocks, batch[di].year,
                                                  batch[di].payment_date, enhanced)
            /\ rows' = <<>>
            /\ flips' = 0
            /\ reconFlips' = 0 - 1
            /\ pc' = StageAfter("extract")
            /\ error' = error
    /\ UNCHANGED <<enhanced, ids, table, writerVars, entry, opts, batch, di,
                   all_rows, files, stdout, returned, total_mismatches,
                   total_missing, emitted, scanVars, regionVars, lookupVars, amountVars, storeVars, splitVars, groupVars, parseVars, loopVars>>

\* expected_total of parse_itau: the manual total, else the printed one.
\* parse_itau_pdf has its total parameter only, a number: the number the
\* option text reads as.
ExpectedTotal ==
    IF opts.total # None THEN Total(Cents(ManualTotal(opts.total)))
    ELSE IF entry = "parse_itau" THEN doc.total
    ELSE NoTotal

\* The reconciliation.  parse_itau notes a missing total, and catches the
\* ValueError of check_total and notes it; parse_itau_pdf calls check_total
\* bare.
Reconcile ==
    /\ pc = "reconcile"
    /\ reconFlips' = flips
    /\ LET checked == check_total(statements, ExpectedTotal.cents) IN
       IF ~ExpectedTotal.found
       THEN /\ total_missing' =
                 IF entry = "parse_itau" THEN Append(total_missing, doc.name)
                 ELSE total_missing
            /\ pc' = StageAfter("reconcile")
            /\ UNCHANGED <<total_mismatches, error>>
       ELSE IF checked.outcome = "ok"
       THEN /\ pc' = StageAfter("reconcile")
            /\ UNCHANGED <<total_mismatches, total_missing, error>>
       ELSE IF entry = "parse_itau"
       THEN /\ total_mismatches' = Append(total_mismatches, doc.name)
            /\ pc' = StageAfter("reconcile")
            /\ UNCHANGED <<total_missing, error>>
       ELSE /\ pc' = "crashed"
            /\ error' = IF checked.outcome = "mismatch" THEN "total_mismatch"
                        ELSE "parse_error"
            /\ UNCHANGED <<total_mismatches, total_missing>>
    /\ UNCHANGED <<reconVars, table, writerVars, entry, opts, batch, di, all_rows,
                   files, stdout, returned, emitted, flips, scanVars, regionVars, lookupVars, amountVars, storeVars, splitVars, groupVars, parseVars, loopVars>>

\* rows = flip_sign_last_column(statements)
FlipRows ==
    /\ pc = "flip"
    /\ rows' = flip_sign_last_column(statements)
    /\ flips' = flips + 1
    /\ pc' = StageAfter("flip")
    /\ UNCHANGED <<doc, enhanced, statements, ids, table, writerVars, entry, opts,
                   batch, di, all_rows, files, stdout, returned, total_mismatches,
                   total_missing, error, emitted, reconFlips, scanVars, regionVars, lookupVars, amountVars, storeVars, splitVars, groupVars, parseVars, loopVars>>

\* if rename: ...  BadParameter when the card digits or the month of the
\* payment date are not found; the renaming itself leaves the rows alone.
Rename ==
    /\ pc = "rename"
    /\ IF opts.rename /\ ~doc.last4
       THEN pc' = "crashed" /\ error' = "no_last4"
       ELSE IF opts.rename /\ ~ParseDMY(IF doc.payment_date = None THEN <<>>
                                        ELSE doc.payment_date).ok
       THEN pc' = "crashed" /\ error' = "no_month"
       ELSE pc' = StageAfter("rename") /\ error' = error
    /\ UNCHANGED <<reconVars, table, writerVars, entry, opts, batch, di, all_rows,
                   files, stdout, returned, total_mismatches, total_missing,
                   emitted, flips, reconFlips, scanVars, regionVars, lookupVars, amountVars, storeVars, splitVars, groupVars, parseVars, loopVars>>

\* The step after the body of the loop for document di.
AfterBody ==
    IF di < Len(batch) THEN "extract"
    ELSE IF opts.merge THEN "merge"
    ELSE "done"

\* The end of the loop body: under --merge the rows join all_rows; else they
\* get their ids and are written, to the CSV file of the document or, with
\* --output, to the output table by write_csv_lines_idempotent.  The calls
\* apply_id_schema(rows, locale.value) and localize_rows(rows, locale.value)
\* are the functions of itau.py on the rows, which know the en-US format only.
Emit ==
    /\ pc = "emit"
    /\ IF opts.merge
       THEN /\ all_rows' = all_rows \o rows
            /\ UNCHANGED <<ids, files, table, emitted>>
       ELSE LET out == localize_rows(apply_id_schema(rows)) IN
            /\ ids' = apply_id_schema(rows)
            /\ emitted' = emitted \cup {di}
            /\ all_rows' = all_rows
            /\ IF opts.output
               THEN /\ table' = write_csv_lines_idempotent(
                                    table, out, TRUE, HeadersFor(enhanced)).table
                    /\ files' = files
               ELSE /\ files' = Append(files,
                                  [name |-> doc.name,
                                   records |-> write_csv_lines(out, TRUE,
                                                               HeadersFor(enhanced))])
                    /\ table' = table
    /\ pc' = AfterBody
    /\ di' = IF di < Len(batch) THEN di + 1 ELSE di
    /\ UNCHANGED <<doc, enhanced, statements, rows, writerVars, entry, opts, batch,
                   stdout, returned, total_mismatches, total_missing, error,
                   flips, reconFlips, scanVars, regionVars, lookupVars, amountVars, storeVars, splitVars, groupVars, parseVars, loopVars>>

\* if merge: after the loop the gathered rows get their ids and are written,
\* to the output table or, without --output, printed.
MergeWrite ==
    /\ pc = "merge"
    /\ LET out == localize_rows(apply_id_schema(all_rows)) IN
       /\ ids' = apply_id_schema(all_rows)
       /\ IF opts.output
          THEN /\ table' = write_csv_lines_idempotent(
                               table, out, TRUE, HeadersFor(enhanced)).table
               /\ stdout' = stdout
          ELSE /\ stdout' = stdout \o <<Join(HeadersFor(enhanced), <<",">>)>> \o out
               /\ table' = table
    /\ emitted' = 1..Len(batch)
    /\ pc' = "done"
    /\ UNCHANGED <<doc, enhanced, statements, rows, writerVars, entry, opts, batch,
                   di, all_rows, files, returned, total_mismatches, total_missing,
                   error, flips, reconFlips, scanVars, regionVars, lookupVars, amountVars, storeVars, splitVars, groupVars, parseVars, loopVars>>

\* return flip_sign_last_column(statements) of parse_itau_pdf
Return ==
    /\ pc = "return"
    /\ returned' = rows
    /\ emitted' = {di}
    /\ pc' = "done"
    /\ UNCHANGED <<reconVars, table, writerVars, entry, opts, batch, di, all_rows,
                   files, stdout, total_mismatches, total_missing, error, flips,
                   reconFlips, scanVars, regionVars, lookupVars, amountVars, storeVars, splitVars, groupVars, parseVars, loopVars>>

Next ==
    \/ Start
    \/ Extract
    \/ Reconcile
    \/ FlipRows
    \/ Rename
    \/ Emit
    \/ MergeWrite
    \/ Return

Spec == Init /\ [][Next]_vars

(***************************************************************************)
(* Properties of the runs                                                  *)
(***************************************************************************)
\* The records of the output table that are rows, the header left out.
TableRows == SelectSeq(table, LAMBDA r : r # HeadersFor(enhanced))

\* C2: no two rows of the output table carry the same id, whatever runs and
\* merges wrote the table.
C2_IdsUniqueInTable ==
    \A i \in 1..Len(TableRows), j \in 1..Len(TableRows) :
       i # j => TableRows[i][1] # TableRows[j][1]

\* The documents of the batch whose check_total raised a mismatch.
Mismatched ==
    {i \in 1..Len(batch) :
       \E k \in 1..Len(total_mismatches) : total_mismatches[k] = batch[i].name}

\* C5: in every entry point a total that differs from the sum of the rows
\* is a warning only: it ends no run, and the rows of the document are
\* written or returned all the same.
C5_MismatchOnlyWarns ==
    /\ error # "total_mismatch"
    /\ pc = "done" => Mismatched \subseteq emitted

\* A document whose processing fails: fitz cannot open it, or it is to be
\* renamed and the card digits or the payment month are not found.
Fails(d) ==
    \/ ~d.readable
    \/ opts.rename /\ (~d.last4 \/ d.payment_date = None)

\* C6: when parse_itau has ended, however it ended, the rows of every
\* document of the batch whose processing did not fail have been written.
C6_SiblingsStillProcessed ==
    (entry = "parse_itau" /\ pc \in {"done", "crashed"}) =>
       \A i \in 1..Len(batch) : Fails(batch[i]) \/ i \in emitted

\* The rows whose fifth column is a number carry, after the flip, that
\* number negated.
NegatedOnce(before, after) ==
    /\ Len(after) = Len(before)
    /\ \A k \in 1..Len(before) :
         FifthColumn(before[k]).ok =>
            /\ FifthColumn(after[k]).ok
            /\ Cents(FifthColumn(after[k])) = 0 - Cents(FifthColumn(before[k]))

\* C8: the reconciliation of a document runs before any flip of its rows,
\* and once the rows are past the flip, on their way to the writer or the
\* caller, they have been flipped exactly once, after the reconciliation,
\* with and without --merge.
C8_FlipOnceAfterReconcile ==
    /\ reconFlips \in {0 - 1, 0}
    /\ pc = "reconcile" => flips = 0
    /\ pc \in {"rename", "emit", "return"} =>
          /\ reconFlips = 0
          /\ flips = 1
          /\ NegatedOnce(statements, rows)
    /\ (pc = "done" /\ entry = "parse_itau_pdf") =>
          /\ flips = 1
          /\ returned = rows
          /\ NegatedOnce(statements, returned)
    /\ (pc \in {"merge", "done"} /\ entry = "parse_itau" /\ opts.merge) =>
          /\ flips = 1
          /\ reconFlips = 0
          /\ NegatedOnce(
               Flatten([i \in 1..Len(batch) |->
                          blocks_to_statements(batch[i].blocks, batch[i].year,
                                               batch[i].payment_date, enhanced)]),
               all_rows)

\* C8 witness: a run with --merge over two documents has written rows, one
\* document having been reconciled with a mismatch.
C8_Witness ==
    /\ pc = "done"
    /\ entry = "parse_itau"
    /\ opts.merge
    /\ Len(batch) = 2
    /\ Len(all_rows) >= 2
    /\ total_mismatches # <<>>
    /\ flips = 1


\* C20: the date and the amount import_csv recovers from every row of the
\* CSV file written for a document are the date and the amount of the row
\* before localize_rows rendered it.
C20_ImportRecoversDateAndAmount ==
    files # <<>> =>
      LET records == files[Len(files)].records IN
      /\ Len(records) = Len(ids) + 1
      /\ \A k \in 1..Len(ids) :
           LET read == import_csv(records[1], records[k + 1]) IN
           /\ read.txn_date = IsoDate(ParseDMY(SplitMax(ids[k], ",", 2)[2]))
           /\ read.amount.ok
           /\ read.amount.cents = Cents(ParseFloat(AmountColumn(ids[k])))

(***************************************************************************)
(* Calls of the amount parsers: parse_brl_amount, the --total option of    *)
(* parse_itau, and _parse_amount_cents of the store's import.              *)
(***************************************************************************)
\* The amount texts tried: up to three groups of digits with a separator or
\* nothing between them, such as 1,234.56, 1.234,56, 1,56 and 1234.56.
AmountSeparators == {<<>>, <<",">>, <<".">>}

AmountTexts ==
    {first \o s1 \o middle \o s2 \o last :
        first \in {<<>>, <<"1">>},
        s1 \in AmountSeparators,
        middle \in {<<>>, <<"2">>, <<"2", "3", "4">>},
        s2 \in AmountSeparators,
        last \in {<<>>, <<"5">>, <<"5", "6">>}}

HasChar(s, c) == FirstIdx(s, c) # 0

AmountInit ==
    /\ pc = "amount"
    /\ ReconIdle
    /\ table = <<>>
    /\ WriterIdle
    /\ BatchIdle
    /\ ScanIdle
    /\ RegionIdle
    /\ LookupIdle
    /\ StoreIdle
    /\ SplitIdle
    /\ GroupIdle
    /\ ParseIdle
    /\ LoopIdle
    /\ amount \in {[text |-> t, stage |-> "given", via |-> "none", value |-> NotAFloat] :
                     t \in AmountTexts}

AmountFrame ==
    UNCHANGED <<pc, reconVars, table, writerVars, batchVars, scanVars, regionVars, lookupVars, storeVars, splitVars, groupVars, parseVars, loopVars>>

\* value = parse_brl_amount(text)
ParseBrl ==
    /\ pc = "amount"
    /\ amount.stage = "given"
    /\ amount' = [amount EXCEPT !.stage = "parsed", !.via = "parse_brl_amount",
                                !.value = parse_brl_amount(amount.text)]
    /\ AmountFrame

\* parse_itau --total text: manual_total
ParseTotalOption ==
    /\ pc = "amount"
    /\ amount.stage = "given"
    /\ amount' = [amount EXCEPT !.stage = "parsed", !.via = "total_option",
                                !.value = ManualTotal(amount.text)]
    /\ AmountFrame

\* value = _parse_amount_cents(text)
ParseCents ==
    /\ pc = "amount"
    /\ amount.stage = "given"
    /\ amount' = [amount EXCEPT !.stage = "parsed", !.via = "_parse_amount_cents",
                                !.value = _parse_amount_cents(amount.text)]
    /\ AmountFrame

AmountNext == ParseBrl \/ ParseTotalOption \/ ParseCents

SpecAmount == AmountInit /\ [][AmountNext]_vars

\* The number an amount text stands for when the separator that occurs later
\* is the decimal one, the other one grouping digits; a comma alone is the
\* decimal separator.
LaterSeparatorIsDecimal(text) ==
    LET t == Strip(text)
        comma == LastIdx(t, ",")
        dot == LastIdx(t, ".")
    IN IF comma > dot
       THEN ParseFloat(ReplaceChar(RemoveChar(t, "."), ",", "."))
       ELSE ParseFloat(RemoveChar(t, ","))

\* C22: an amount text holding a comma is read with the separator that
\* occurs later as the decimal one (a comma alone being the decimal one),
\* by parse_brl_amount, by the --total option and by _parse_amount_cents.
C22_LaterSeparatorIsDecimal ==
    (amount.stage = "parsed" /\ HasChar(amount.text, ",")) =>
        LET number == LaterSeparatorIsDecimal(amount.text) IN
        IF amount.via = "_parse_amount_cents"
        THEN amount.value = [ok |-> number.ok, cents |-> Cents(number)]
        ELSE amount.value = number

(***************************************************************************)
(* The store: import_csv of db.py, file by file, into the statements       *)
(* table.  A stored row keeps the columns the claims are about.            *)
(***************************************************************************)
Sources == {<<"i", "t", "a", "u">>, <<"v", "i", "s", "a">>}

\* The records of the CSV files imported: the id the writer gave (or none),
\* the purchase date, the payment date, the description and the amount.
CsvRecords ==
    {<<id, date, <<"0", "3", "/", "1", "5", "/", "2", "4">>, desc, amt>> :
        id \in {<<>>, <<"2", "0", "2", "4", "-", "M", "A", "R", "-", "1">>,
                <<"2", "0", "2", "4", "-", "M", "A", "R", "-", "2">>},
        date \in {<<"0", "3", "/", "1", "3", "/", "2", "4">>,
                  <<"0", "3", "/", "1", "4", "/", "2", "4">>},
        desc \in {<<"G">>, <<"H">>},
        amt \in {<<"-", "1", "0", ".", "5">>, <<"-", "2", "0", ".", "0">>}}

MaxImported == 2

\* str(n) for an integer n.
IntToStr(n) == IF n < 0 THEN <<"-">> \o NatToStr(0 - n) ELSE NatToStr(n)

\* _hash_import_id: the SHA-1 digest is taken as one-to-one on the texts
\* hashed, so the key is the text hashed itself.
_hash_import_id(source, txn_date, post_date, description, amount_cents) ==
    <<"s", "h", "a", "1", ":">>
    \o Join(<<source, txn_date, IF post_date = None THEN <<>> ELSE post_date,
              description, IntToStr(amount_cents)>>, <<"|">>)

\* The row import_csv binds to its INSERT for one record of the file.
InsertedRow(source, record) ==
    LET read == import_csv(CSV_HEADERS, record)
        payment_date == pick(CSV_HEADERS, record, CSV_HEADERS[3])
        post_date == IF payment_date = None THEN None ELSE _parse_date(payment_date)
        description == pick(CSV_HEADERS, record, CSV_HEADERS[4])
        raw_id == pick(CSV_HEADERS, record, CSV_HEADERS[1])
    IN [source |-> source,
        txn_date |-> read.txn_date,
        post_date |-> post_date,
        description |-> description,
        amount_cents |-> read.amount.cents,
        raw_import_id |-> IF raw_id # None THEN raw_id
                          ELSE _hash_import_id(source, read.txn_date, post_date,
                                               description, read.amount.cents)]

RECURSIVE InsertRows(_, _, _)
\* The loop of import_csv over the records of the file: INSERT ... ON
\* CONFLICT(raw_import_id) DO NOTHING, counting what was inserted and skipped.
InsertRows(st, source, records) ==
    IF records = <<>> THEN st
    ELSE LET row == InsertedRow(source, records[1])
             next ==
                 IF row.txn_date = None
                 THEN [st EXCEPT !.skipped = @ + 1]
                 ELSE IF \E k \in 1..Len(st.rows) : st.rows[k].raw_import_id = row.raw_import_id
                 THEN [st EXCEPT !.skipped = @ + 1]
                 ELSE [st EXCEPT !.rows = Append(@, row), !.inserted = @ + 1]
         IN InsertRows(next, source, Tail(records))

\* What the claims compare rows by.
Content(source, record) ==
    LET row == InsertedRow(source, record)
    IN <<row.source, row.txn_date, row.description, row.amount_cents>>

StoreInit ==
    /\ pc = "store"
    /\ ReconIdle
    /\ table = <<>>
    /\ WriterIdle
    /\ BatchIdle
    /\ ScanIdle
    /\ RegionIdle
    /\ LookupIdle
    /\ AmountIdle
    /\ StoreIdle
    /\ SplitIdle
    /\ GroupIdle
    /\ ParseIdle
    /\ LoopIdle

\* import_csv(db, csv_path, source) of a file of one record or more.
ImportCsv ==
    /\ pc = "store"
    /\ Cardinality(store.given) < MaxImported
    /\ \E source \in Sources, n \in 1..(MaxImported - Cardinality(store.given)) :
         \E records \in [1..n -> CsvRecords] :
            /\ \A k \in 1..n : <<source, records[k]>> \notin store.given
            /\ \A j, k \in 1..n : j # k => records[j] # records[k]
            /\ store' = [InsertRows([store EXCEPT !.inserted = 0, !.skipped = 0],
                                    source, records)
                           EXCEPT !.given = store.given \cup
                                            {<<source, records[k]>> : k \in 1..n}]
    /\ UNCHANGED <<pc, reconVars, table, writerVars, batchVars, scanVars, regionVars,
                   lookupVars, amountVars, splitVars, groupVars, parseVars, loopVars>>

StoreNext == ImportCsv

SpecStore == StoreInit /\ [][StoreNext]_vars

StoredContents ==
    {<<store.rows[k].source, store.rows[k].txn_date, store.rows[k].description,
       store.rows[k].amount_cents>> : k \in 1..Len(store.rows)}

\* C21: whatever the ids of the rows given to import_csv, the store holds
\* one row for each source, date, description and amount given: rows equal
\* in the four are stored once, rows differing in one of them are both
\* stored.
C21_DedupKeyIgnoresId ==
    /\ StoredContents = {Content(g[1], g[2]) : g \in store.given}
    /\ Len(store.rows) = Cardinality(StoredContents)

(***************************************************************************)
(* The column split: _compute_split_x and the page loop of                 *)
(* _iter_pages_with_split.  Coordinates are in thousandths of a point, so  *)
(* that the halves and the quarters the code takes are whole numbers.      *)
(***************************************************************************)
Pt(n) == 1000 * n

\* The left edges (x0) words are drawn from.
LeftEdges == {Pt(0), Pt(40), Pt(55), Pt(60), Pt(100)}

MaxWords == 4

MaxDocPages == 2

\* page.get_text("words") of a page, each word by its x0, in any order.
WordsUpTo(n) == UNION {[1..k -> LeftEdges] : k \in 0..n}

RECURSIVE Sorted(_)
\* sorted(values)
Sorted(values) ==
    IF values = <<>> THEN <<>>
    ELSE LET least == CHOOSE k \in 1..Len(values) :
                          \A j \in 1..Len(values) :
                              values[k] < values[j] \/ (values[k] = values[j] /\ k <= j)
         IN <<values[least]>>
            \o Sorted([j \in 1..(Len(values) - 1) |->
                          IF j < least THEN values[j] ELSE values[j + 1]])

RECURSIVE GapLoop(_, _, _)
\* The loop of _compute_split_x from x0_values[k] on: max_gap and split_x.
GapLoop(x0_values, k, found) ==
    IF k > Len(x0_values) THEN found
    ELSE LET prev == x0_values[k - 1]
             current == x0_values[k]
             gap == current - prev
         IN GapLoop(x0_values, k + 1,
                    IF gap > found.max_gap
                    THEN [max_gap |-> gap, split_x |-> (prev + current) \div 2]
                    ELSE found)

\* The mutant of MinGap: no least gap.
NoMinGap == Pt(0)

\* 20.0 points
MinGap == Pt(20)

\* _compute_split_x(words, page_rect)
_compute_split_x(words, page_rect) ==
    LET x0_values == Sorted(words)
        centre == page_rect.x0 + page_rect.width \div 2
        found == GapLoop(x0_values, 2, [max_gap |-> 0, split_x |-> centre])
        min_x0 == x0_values[1]
        max_x0 == x0_values[Len(x0_values)]
        span == max_x0 - min_x0
        min_split == min_x0 + span \div 4
        max_split == max_x0 - span \div 4
    IN IF Len(x0_values) < 2 THEN centre
       ELSE IF span <= 0 THEN centre
       ELSE IF found.max_gap >= MinGap /\ min_split <= found.split_x
                                     /\ found.split_x <= max_split
       THEN found.split_x
       ELSE min_x0 + span \div 2

\* cm_to_pt = 28.35, here for an offset in millimetres.
cm_to_pt == 2835

\* split_offsets_cm[layout], in millimetres: the first page's, the others'.
split_offsets_cm(layout) == IF layout = "legacy" THEN <<0, 15>> ELSE <<0 - 10, 10>>

SplitInit ==
    /\ pc = "split"
    /\ ReconIdle
    /\ table = <<>>
    /\ WriterIdle
    /\ BatchIdle
    /\ ScanIdle
    /\ RegionIdle
    /\ LookupIdle
    /\ AmountIdle
    /\ StoreIdle
    /\ GroupIdle
    /\ ParseIdle
    /\ LoopIdle
    /\ \E layout \in Layouts :
          splitter = [layout |-> layout, pageNo |-> 0,
                      first |-> [words |-> <<>>, rect |-> [x0 |-> 0, width |-> 0]],
                      words |-> <<>>, rect |-> [x0 |-> 0, width |-> 0],
                      base |-> [set |-> FALSE, x |-> 0], computed |-> 0,
                      split_x_line |-> 0]

\* The mutant of BaseSplit: the split of the page just read.
OwnSplit(base, split_x) == split_x

\* base_split_x after "if base_split_x is None: base_split_x = split_x".
BaseSplit(base, split_x) == IF base.set THEN base.x ELSE split_x

\* One turn of the loop of _iter_pages_with_split: the next page of the
\* document is read and yielded with its split.  The first page has up to
\* MaxWords words, a later one up to two.
YieldPage ==
    /\ pc = "split"
    /\ splitter.pageNo < MaxDocPages
    /\ \E words \in WordsUpTo(IF splitter.pageNo = 0 THEN MaxWords ELSE 2),
          page_rect \in {[x0 |-> Pt(10), width |-> Pt(595)]} :
          LET page_number == splitter.pageNo + 1
              split_x == _compute_split_x(words, page_rect)
              base_split_x == BaseSplit(splitter.base, split_x)
              offset_cm == split_offsets_cm(splitter.layout)[IF page_number = 1 THEN 1 ELSE 2]
          IN splitter' = [splitter EXCEPT
                             !.pageNo = page_number,
                             !.first = IF page_number = 1 THEN [words |-> words, rect |-> page_rect] ELSE @,
                             !.words = words,
                             !.rect = page_rect,
                             !.base = [set |-> TRUE, x |-> base_split_x],
                             !.computed = split_x,
                             !.split_x_line = base_split_x + offset_cm * cm_to_pt]
    /\ UNCHANGED <<pc, reconVars, table, writerVars, batchVars, scanVars, regionVars,
                   lookupVars, amountVars, storeVars, groupVars, parseVars, loopVars>>

SplitNext == YieldPage

SpecSplit == SplitInit /\ [][SplitNext]_vars

(***************************************************************************)
(* Properties of the column split                                          *)
(***************************************************************************)
\* The left edges of the words read, as a set.
Edges == {splitter.words[k] : k \in 1..Len(splitter.words)}

LeastEdge == CHOOSE a \in Edges : \A b \in Edges : a <= b

GreatestEdge == CHOOSE a \in Edges : \A b \in Edges : b <= a

\* The gaps between consecutive left edges, each by its two edges.
Gaps == {g \in Edges \X Edges : g[1] < g[2] /\ ~\E c \in Edges : g[1] < c /\ c < g[2]}

\* The largest gap, the leftmost one among equals.
LargestGap ==
    CHOOSE g \in Gaps : \A h \in Gaps :
        \/ g[2] - g[1] > h[2] - h[1]
        \/ g[2] - g[1] = h[2] - h[1] /\ g[1] <= h[1]

\* Twice the midpoint of the largest gap lies in the middle half of the
\* range of the left edges: a quarter of the range away from both ends.
GapInMiddleHalf ==
    LET twice == LargestGap[1] + LargestGap[2]
        span == GreatestEdge - LeastEdge
    IN /\ 2 * (twice - 2 * LeastEdge) >= span
       /\ 2 * (2 * GreatestEdge - twice) >= span

\* Twice the split the rule of the gaps gives for the words read.
TwiceSplitByGap ==
    IF Gaps # {} /\ LargestGap[2] - LargestGap[1] >= Pt(20) /\ GapInMiddleHalf
    THEN LargestGap[1] + LargestGap[2]
    ELSE LeastEdge + GreatestEdge

\* C25 as stated: whatever the words of the page, the split computed is the
\* midpoint of the largest gap between consecutive left edges when that gap
\* is at least 20 points wide and its midpoint lies in the middle half of
\* the range of the left edges, and the midpoint of that range otherwise.
C25_SplitByGapForAllWords ==
    (splitter.pageNo >= 1 /\ splitter.words # <<>>) =>
        2 * splitter.computed = TwiceSplitByGap

\* C25, amended: the rule of the gaps holds for words with two different
\* left edges at least; with fewer the split is the horizontal centre of
\* the page rectangle.
C25_SplitByGapOrPageCentre ==
    splitter.pageNo >= 1 =>
        IF Cardinality(Edges) >= 2
        THEN 2 * splitter.computed = TwiceSplitByGap
        ELSE 2 * splitter.computed = 2 * splitter.rect.x0 + splitter.rect.width

\* C25 witness: the largest gap (55 to 100) is wider than 20 points but its
\* midpoint lies outside the middle half, and the split is the midpoint of
\* the range.
C25_Witness ==
    /\ splitter.pageNo = 1
    /\ splitter.words = <<Pt(100), Pt(0), Pt(55), Pt(40)>>
    /\ splitter.computed = Pt(50)

\* C30: the split yielded with the first page is the split computed from the
\* words of that page plus the layout's first-page offset; the split yielded
\* with every later page is the split computed from the words of the first
\* page plus the layout's offset for the other pages, whatever the words of
\* the later page.
C30_LaterPagesUseFirstPageSplit ==
    LET base == _compute_split_x(splitter.first.words, splitter.first.rect)
        offsets == IF splitter.layout = "legacy" THEN <<0, 42525>> ELSE <<0 - 28350, 28350>>
    IN /\ splitter.pageNo = 1 => splitter.split_x_line = base + offsets[1]
       /\ splitter.pageNo > 1 => splitter.split_x_line = base + offsets[2]

\* C30 witness: a second page whose own words give another split than the
\* words of the first page.
C30_Witness ==
    /\ splitter.pageNo = 2
    /\ splitter.computed # _compute_split_x(splitter.first.words, splitter.first.rect)
    /\ splitter.first.words # <<>>
    /\ splitter.words # <<>>

(***************************************************************************)
(* Line grouping: _extract_page_lines and _group_words_into_lines.  A word *)
(* is its left edge x0, its top y0 and its height y1 - y0.                 *)
(***************************************************************************)
PageWords ==
    [x0 : {Pt(100), Pt(400)}, y0 : {Pt(50), Pt(53), Pt(60)}, height : {Pt(4), Pt(20)}]

MaxPageWords == 4

\* Tuple order of Python on pairs: a < b.
PairBefore(a, b) == a[1] < b[1] \/ (a[1] = b[1] /\ a[2] < b[2])

RECURSIVE SortedBy(_, _)
\* sorted(items, key=...), a stable sort: keys[k] is the key of items[k], a pair.
SortedBy(items, keys) ==
    IF items = <<>> THEN <<>>
    ELSE LET least == CHOOSE k \in 1..Len(items) :
                          /\ \A j \in 1..Len(items) : ~PairBefore(keys[j], keys[k])
                          /\ \A j \in 1..(k - 1) : PairBefore(keys[k], keys[j])
             Without(seq) == [j \in 1..(Len(seq) - 1) |->
                                IF j < least THEN seq[j] ELSE seq[j + 1]]
         IN <<items[least]>> \o SortedBy(Without(items), Without(keys))

\* The mutant of Tolerance: the floor of two points alone.
FloorTolerance(words) == Pt(2)

\* y_tol = max(2.0, median_height * 0.3), median_height being
\* heights[len(heights) // 2] of the sorted heights of the words given.
Tolerance(words) ==
    LET heights == SortedBy([k \in 1..Len(words) |-> words[k].height],
                                [k \in 1..Len(words) |-> <<words[k].height, 0>>])
        median_height == heights[Len(heights) \div 2 + 1]
        scaled == (3 * median_height) \div 10
    IN IF scaled > Pt(2) THEN scaled ELSE Pt(2)

Distance(a, b) == IF a < b THEN b - a ELSE a - b

RECURSIVE GroupLoop(_, _, _, _)
\* The first loop of _group_words_into_lines from words_sorted[k] on; a line
\* is its reference y0 and its words.
GroupLoop(words_sorted, k, y_tol, lines) ==
    IF k > Len(words_sorted) THEN lines
    ELSE LET word == words_sorted[k]
             n == Len(lines)
         IN GroupLoop(words_sorted, k + 1, y_tol,
                IF lines = <<>> \/ Distance(word.y0, lines[n].y0) > y_tol
                THEN Append(lines, [y0 |-> word.y0, words |-> <<word>>])
                ELSE [lines EXCEPT ![n] =
                         [y0 |-> IF word.y0 < @.y0 THEN word.y0 ELSE @.y0,
                          words |-> Append(@.words, word)]])

\* _group_words_into_lines(words) with y_tol = None.
_group_words_into_lines(words) ==
    IF words = <<>> THEN <<>>
    ELSE GroupLoop(SortedBy(words, [k \in 1..Len(words) |-> <<words[k].y0, words[k].x0>>]),
                   1, Tolerance(words), <<>>)

\* _extract_page_lines(page, split_x)
_extract_page_lines(words, split_x) ==
    [left |-> _group_words_into_lines(SelectSeq(words, LAMBDA w : w.x0 < split_x)),
     right |-> _group_words_into_lines(SelectSeq(words, LAMBDA w : ~(w.x0 < split_x)))]

GroupInit ==
    /\ pc = "group"
    /\ ReconIdle
    /\ table = <<>>
    /\ WriterIdle
    /\ BatchIdle
    /\ ScanIdle
    /\ RegionIdle
    /\ LookupIdle
    /\ AmountIdle
    /\ StoreIdle
    /\ SplitIdle
    /\ ParseIdle
    /\ LoopIdle
    /\ \E n \in 0..MaxPageWords : \E words \in [1..n -> PageWords] :
          grouper = [words |-> words, stage |-> "page",
                     lines |-> [left |-> <<>>, right |-> <<>>]]

\* page_lines = _extract_page_lines(page, split_x)
ExtractPageLines ==
    /\ pc = "group"
    /\ grouper.stage = "page"
    /\ grouper' = [grouper EXCEPT !.stage = "lines",
                                  !.lines = _extract_page_lines(grouper.words, Pt(300))]
    /\ UNCHANGED <<pc, reconVars, table, writerVars, batchVars, scanVars, regionVars,
                   lookupVars, amountVars, storeVars, splitVars, parseVars, loopVars>>

GroupNext == ExtractPageLines

SpecGroup == GroupInit /\ [][GroupNext]_vars

\* The tolerance of the page: from the median height of all its words.
PageTolerance ==
    LET heights == {grouper.words[k].height : k \in 1..Len(grouper.words)}
        median == CHOOSE h \in heights :
                      /\ 2 * Cardinality({k \in 1..Len(grouper.words) :
                                            grouper.words[k].height < h}) <= Len(grouper.words)
                      /\ 2 * Cardinality({k \in 1..Len(grouper.words) :
                                            grouper.words[k].height > h}) < Len(grouper.words)
        scaled == (3 * median) \div 10
    IN IF scaled > Pt(2) THEN scaled ELSE Pt(2)

\* The least top among the first n words of a line.
LeastTop(line, n) ==
    CHOOSE y \in {line[k].y0 : k \in 1..n} : \A k \in 1..n : y <= line[k].y0

\* The lines of a column break exactly where the tolerance tol says: a line
\* opens with a word further than tol from the reference y0 of the line
\* before it, and every other word is within tol of the reference y0 its
\* line had when the word joined.
BreaksBy(lines, tol) ==
    /\ \A i \in 2..Len(lines) :
          Distance(lines[i].words[1].y0,
                   LeastTop(lines[i - 1].words, Len(lines[i - 1].words))) > tol
    /\ \A i \in 1..Len(lines) : \A k \in 2..Len(lines[i].words) :
          Distance(lines[i].words[k].y0, LeastTop(lines[i].words, k - 1)) <= tol

\* C26: in both columns of a page the lines break by one tolerance, the
\* larger of 2.0 points and 0.3 times the median height of all the words of
\* the page.
C26_LinesBreakByPageTolerance ==
    grouper.stage = "lines" =>
        /\ BreaksBy(grouper.lines.left, PageTolerance)
        /\ BreaksBy(grouper.lines.right, PageTolerance)

(***************************************************************************)
(* parse_statements of itau_pdf/statements.py: the generator, one line a   *)
(* step.  current_stmt is a list: empty for None, else the statement.      *)
(***************************************************************************)
LFirst == <<"1", "0", "/", "0", "3", " ", "A", " ", "1", "0", ",", "0", "0">>

LDashed == <<"2", "3", "/", "0", "1", " ", "B", " ", "0", "2", "/", "0", "8", " ", "-", " ", "1", ".", "1", "7", "0", ",", "0", "0">>

LShortDay == <<"1", "/", "0", "3", " ", "A", " ", "1", "0", ",", "0", "0">>

LCategory == <<"C", "A", "T">>

LPlace == <<"D", " ", ".", " ", "E">>

LEmpty == <<>>

LBlank == <<" ", " ">>

LPadded == <<" ", "1", "5", "/", "0", "2", " ", "C", " ", " ", "4", "2", ",", "5", "0", " ">>

\* The texts of the lines given.
StatementLines == {LFirst, LDashed, LShortDay, LCategory, LPlace, LEmpty, LBlank, LPadded}

MaxStatementLines == 3

\* re.match(r"^(?:-\s)?[\d.]+,\d{2}$", s)
IsSignedAmount(s) ==
    LET body == IF Len(s) >= 2 /\ s[1] = "-" /\ IsSpace(s[2]) THEN SubSeq(s, 3, Len(s)) ELSE s
        n == Len(body)
    IN /\ n >= 4
       /\ body[n - 2] = ","
       /\ IsDigit(body[n - 1]) /\ IsDigit(body[n])
       /\ \A k \in 1..(n - 3) : IsDigit(body[k]) \/ body[k] = "."

\* The places of text where r"\s+((?:-\s)?[\d.]+,\d{2})$" matches from:
\* the blanks before the amount, down to the end of the text.
AmountTails(text) ==
    {p \in 1..Len(text) :
        /\ IsSpace(text[p])
        /\ IsSignedAmount(LStrip(SubSeq(text, p, Len(text))))}

\* re.match(r"^(\d{2}/\d{2})\s+(.+?)\s+((?:-\s)?[\d.]+,\d{2})$", text): the
\* blanks after the date taken greedily, the description lazily.
first_line_match(text) ==
    LET dated == /\ Len(text) >= 6
                 /\ IsDigit(text[1]) /\ IsDigit(text[2]) /\ text[3] = "/"
                 /\ IsDigit(text[4]) /\ IsDigit(text[5]) /\ IsSpace(text[6])
        \* the description runs from b up to e - 1, the tail begins at e
        Fits(b, e) == /\ \A k \in 6..(b - 1) : IsSpace(text[k])
                      /\ b < e
                      /\ \A k \in b..(e - 1) : text[k] # "\n"
                      /\ e \in AmountTails(text)
        starts == {b \in 7..Len(text) : \E e \in 1..Len(text) : Fits(b, e)}
        b == CHOOSE x \in starts : \A y \in starts : y <= x
        e == CHOOSE x \in {z \in 1..Len(text) : Fits(b, z)} :
                 \A y \in {z \in 1..Len(text) : Fits(b, z)} : x <= y
    IN IF dated /\ starts # {}
       THEN [matched |-> TRUE,
             date |-> SubSeq(text, 1, 5),
             description |-> SubSeq(text, b, e - 1),
             amount |-> LStrip(SubSeq(text, e, Len(text)))]
       ELSE [matched |-> FALSE, date |-> <<>>, description |-> <<>>, amount |-> <<>>]

\* The mutant of TakesSecondLine: a blank line is taken too.
TakesAnyLine(current_stmt, text) == current_stmt # <<>>

\* if current_stmt and text
TakesSecondLine(current_stmt, text) == current_stmt # <<>> /\ text # <<>>

\* current_stmt with the category and the location of a second line.
WithSecondLine(stmt, text) ==
    IF HasChar(text, ".")
    THEN [stmt EXCEPT !.category = Strip(SplitMax(text, ".", 1)[1]),
                      !.location = Strip(SplitMax(text, ".", 1)[2])]
    ELSE [stmt EXCEPT !.category = text]

ParseInit ==
    /\ pc = "parse"
    /\ ReconIdle
    /\ table = <<>>
    /\ WriterIdle
    /\ BatchIdle
    /\ ScanIdle
    /\ RegionIdle
    /\ LookupIdle
    /\ AmountIdle
    /\ StoreIdle
    /\ SplitIdle
    /\ GroupIdle
    /\ LoopIdle
    /\ \E n \in 0..MaxStatementLines : \E lines \in [1..n -> StatementLines] :
          parser = [lines |-> lines, i |-> 0, current_stmt |-> <<>>, yielded |-> <<>>,
                    stage |-> "loop"]

ParseFrame ==
    UNCHANGED <<pc, reconVars, table, writerVars, batchVars, scanVars, regionVars,
                lookupVars, amountVars, storeVars, splitVars, groupVars, loopVars>>

\* One turn of "for line in lines".
NextLine ==
    /\ pc = "parse"
    /\ parser.stage = "loop"
    /\ parser.i < Len(parser.lines)
    /\ LET text == Strip(parser.lines[parser.i + 1])
           found == first_line_match(text)
           current_stmt == parser.current_stmt
       IN parser' =
            IF found.matched
            THEN [parser EXCEPT
                    !.i = @ + 1,
                    !.yielded = IF current_stmt # <<>> THEN Append(@, current_stmt[1]) ELSE @,
                    !.current_stmt = <<[date |-> found.date,
                                        description |-> Strip(found.description),
                                        amount |-> found.amount,
                                        category |-> <<>>,
                                        location |-> <<>>]>>]
            ELSE IF TakesSecondLine(current_stmt, text)
            THEN [parser EXCEPT
                    !.i = @ + 1,
                    !.yielded = Append(@, WithSecondLine(current_stmt[1], text)),
                    !.current_stmt = <<>>]
            ELSE [parser EXCEPT !.i = @ + 1]
    /\ ParseFrame

\* The lines are exhausted: a pending statement is yielded and the
\* generator returns.
EndOfLines ==
    /\ pc = "parse"
    /\ parser.stage = "loop"
    /\ parser.i = Len(parser.lines)
    /\ parser' = [parser EXCEPT
                    !.stage = "returned",
                    !.yielded = IF parser.current_stmt # <<>>
                                THEN Append(@, parser.current_stmt[1]) ELSE @,
                    !.current_stmt = <<>>]
    /\ ParseFrame

ParseNext == NextLine \/ EndOfLines

SpecParse == ParseInit /\ [][ParseNext]_vars

(***************************************************************************)
(* Properties of parse_statements                                          *)
(***************************************************************************)
\* The places of the lines that match the first-line pattern.
FirstLines ==
    {k \in 1..Len(parser.lines) : first_line_match(Strip(parser.lines[k])).matched}

\* The j-th of them.
FirstLineNo(j) ==
    CHOOSE k \in FirstLines : Cardinality({m \in FirstLines : m <= k}) = j

\* The category line of the statement opened at line k: the first line
\* after k that is not blank, unless it opens a statement itself; 0 when
\* there is none.
CategoryLineOf(k) ==
    LET after == {n \in (k + 1)..Len(parser.lines) : Strip(parser.lines[n]) # <<>>}
        n == CHOOSE x \in after : \A y \in after : x <= y
    IN IF after = {} THEN 0 ELSE IF n \in FirstLines THEN 0 ELSE n

C27_TrailingWitness ==
    /\ parser.stage = "returned"
    /\ parser.lines = <<LFirst, LCategory, LDashed>>
    /\ Len(parser.yielded) = 2
    /\ parser.yielded[2].category = <<>>

(***************************************************************************)
(* The three reconstruction loops, one pass of the outer loop a step:      *)
(* _parse_block_basic, _parse_block_with_metadata and                      *)
(* _parse_statements_from_lines.                                           *)
(***************************************************************************)
LoopLineTexts == {LDate, LText, LAmount, LMeta, <<" ">>}

MaxLoopLines == 3

\* The mutant of LinesSkip: continue without i += 1.
LinesStay(st) == st

\* i += 1; continue
LinesSkip(st) == [st EXCEPT !.i = @ + 1]

\* One pass of the while loop of _parse_statements_from_lines.  st holds the
\* scan position i (from 1), the rows appended, the running index, and
\* whether the pass left the loop by break.
LinesIter(lines, year, payment_date, st) ==
    LET date_text == RemoveWS(lines[st.i])
        j == SkipBlank(lines, st.i + 1)
        k0 == SkipBlank(lines, j + 1)
        installment_text == RemoveWS(lines[k0])
        installment == IsDatePattern(installment_text)
        k == IF installment THEN k0 + 1 ELSE k0
        amount_text == _normalize_amount_text(lines[k])
        match == IF installment
                 THEN <<date_text, lines[j], installment_text, amount_text>>
                 ELSE <<date_text, lines[j], amount_text>>
    IN IF ~IsDatePattern(date_text) THEN LinesSkip(st)
       ELSE IF j > Len(lines) \/ k0 > Len(lines) \/ k > Len(lines)
       THEN [st EXCEPT !.broke = TRUE]
       ELSE IF amount_text = None THEN LinesSkip(st)
       ELSE [i |-> k + 1,
             rows |-> Append(st.rows, StatementRow(st.index, match, year, payment_date)),
             index |-> st.index + 1,
             broke |-> FALSE]

LoopInit ==
    /\ pc = "loop"
    /\ ReconIdle
    /\ table = <<>>
    /\ WriterIdle
    /\ BatchIdle
    /\ ScanIdle
    /\ RegionIdle
    /\ LookupIdle
    /\ AmountIdle
    /\ StoreIdle
    /\ SplitIdle
    /\ GroupIdle
    /\ ParseIdle
    /\ loop = [mode |-> "none", lines |-> <<>>, st |-> [i |-> 1], stage |-> "call"]

LoopFrame ==
    UNCHANGED <<pc, reconVars, table, writerVars, batchVars, scanVars, regionVars,
                lookupVars, amountVars, storeVars, splitVars, groupVars, parseVars>>

\* A call of one of the three functions: the lines its loop runs over (the
\* block parsers drop the blank lines first) and the state the loop starts in.
CallLoop ==
    /\ pc = "loop"
    /\ loop.stage = "call"
    /\ \E n \in 0..MaxLoopLines : \E lines \in [1..n -> LoopLineTexts] :
          \/ loop' = [mode |-> "basic", lines |-> BlockLines(lines), stage |-> "loop",
                      st |-> [i |-> 1, rows |-> <<>>, index |-> FirstIndex]]
          \/ loop' = [mode |-> "enhanced", lines |-> BlockLines(lines), stage |-> "loop",
                      st |-> [i |-> 1, statements |-> <<>>, pending |-> <<>>,
                              current |-> NoStatement]]
          \/ loop' = [mode |-> "lines", lines |-> lines, stage |-> "loop",
                      st |-> [i |-> 1, rows |-> <<>>, index |-> FirstIndex,
                              broke |-> FALSE]]
    /\ LoopFrame

\* A pass of "while i < len(lines)" is about to run.
InLoop(mode) ==
    /\ pc = "loop"
    /\ loop.mode = mode
    /\ loop.stage = "loop"
    /\ loop.st.i <= Len(loop.lines)

\* One pass of the outer loop of _parse_block_basic.
BasicPass ==
    /\ InLoop("basic")
    /\ loop' = [loop EXCEPT !.st = BasicIter(loop.lines, <<"2", "4">>, None, loop.st)]
    /\ LoopFrame

\* One pass of the loop of _parse_block_with_metadata.
EnhancedPass ==
    /\ InLoop("enhanced")
    /\ loop' = [loop EXCEPT !.st = EnhancedIter(loop.lines, loop.st)]
    /\ LoopFrame

\* One pass of the outer loop of _parse_statements_from_lines; a break
\* leaves the loop.
LinesPass ==
    /\ InLoop("lines")
    /\ LET st == LinesIter(loop.lines, <<"2", "4">>, None, loop.st)
       IN loop' = [loop EXCEPT !.st = st,
                               !.stage = IF st.broke THEN "returned" ELSE @]
    /\ LoopFrame

\* The test "i < len(lines)" fails: the loop is over.
LoopEnds ==
    /\ pc = "loop"
    /\ loop.stage = "loop"
    /\ loop.st.i > Len(loop.lines)
    /\ loop' = [loop EXCEPT !.stage = "returned"]
    /\ LoopFrame

LoopNext == CallLoop \/ BasicPass \/ EnhancedPass \/ LinesPass \/ LoopEnds

SpecLoops == LoopInit /\ [][LoopNext]_vars

\* The interpreter always runs the next pass: the loops have no wait.
SpecLoopsLive == SpecLoops /\ WF_vars(LoopNext)

\* C28 as stated: the loops end, and the scan position is greater after
\* every pass of the outer loop than before it.
C28_EveryPassAdvances ==
    /\ [][loop.stage = "loop" /\ loop.st.i <= Len(loop.lines) => loop'.st.i > loop.st.i]_vars
    /\ <>(loop.stage = "returned")

\* C28, amended: the loops end, and every pass of the outer loop either
\* leaves the scan position greater than it was or leaves the loop (the
\* breaks of _parse_statements_from_lines).
C28_EveryPassAdvancesOrLeaves ==
    /\ [][loop.stage = "loop" /\ loop.st.i <= Len(loop.lines) =>
             loop'.st.i > loop.st.i \/ loop'.stage = "returned"]_vars
    /\ <>(loop.stage = "returned")

\* C28 witness: _parse_statements_from_lines has run to its end over a
\* list with a whole statement and appended its row.
C28_Witness ==
    /\ loop.mode = "lines"
    /\ loop.stage = "returned"
    /\ loop.st.rows # <<>>
    /\ loop.st.i > Len(loop.lines)

=============================================================================
